---- MODULE Spec2Model ----
(***************************************************************************)
(* Traffic backend: the in-memory TrafficStore (services/localStore.js,   *)
(* the block of lines 87-749 that services/traffic.js repeats), the        *)
(* TomTom client (realTrafficService, src/unnamed/part_005) and the        *)
(* TrafficController (controllers/traffic.js).                             *)
(*                                                                         *)
(* Execution model: Node.js runs one callback to completion at a time.     *)
(* A timer callback, an I/O completion and everything that follows it up   *)
(* to the next await on I/O is one atomic action here; the only places an  *)
(* operation can be suspended are its awaits on the provider (fetch) and   *)
(* on the store (insertMany, find).                                        *)
(***************************************************************************)
EXTENDS Integers, Sequences, FiniteSets, TLC

(***************************************************************************)
(* Bounds of the exploration.                                              *)
(***************************************************************************)
MaxTicks == 1          \* timer firings explored by Spec, SpecFault, SpecLive
DeepTicks == 502       \* timer firings explored by SpecDeep (passes the cap)
MaxRequests == 2       \* /live requests per run
FaultTicks == 2        \* timer firings explored by SpecFault
RangeTicks == 5        \* timer firings explored by SpecRange
StartMs == 1000        \* wall clock at construction

(***************************************************************************)
(* Program constants.                                                      *)
(***************************************************************************)
HISTORY_CAP == 500         \* localStore.js:227, 318, 331
TickIntervalMs == 10000    \* localStore.js:192

DEFAULT_CITY == "Bangalore"
\* Object.keys(CITY_BBOX), in insertion order
CityOrder == <<"Bangalore", "Mumbai", "Delhi">>
Cities == {CityOrder[i] : i \in 1..Len(CityOrder)}

(***************************************************************************)
(* Strings that reach the program from outside are sequences of            *)
(* one-character strings, so that trim() and toLowerCase() are computed.   *)
(* A query parameter is either absent (undefined) or a string.             *)
(***************************************************************************)
Undef == [def |-> FALSE, str |-> <<>>]
Raw(s) == [def |-> TRUE, str |-> s]

LowerChar(ch) ==
  CASE ch = "A" -> "a" [] ch = "B" -> "b" [] ch = "C" -> "c" [] ch = "D" -> "d"
    [] ch = "E" -> "e" [] ch = "G" -> "g" [] ch = "H" -> "h" [] ch = "I" -> "i"
    [] ch = "L" -> "l" [] ch = "M" -> "m" [] ch = "N" -> "n" [] ch = "O" -> "o"
    [] ch = "P" -> "p" [] ch = "R" -> "r" [] ch = "S" -> "s" [] ch = "U" -> "u"
    [] OTHER -> ch

toLowerCase(s) == [i \in 1..Len(s) |-> LowerChar(s[i])]

IsSpace(ch) == ch = " "

RECURSIVE trimStart(_)
trimStart(s) ==
  IF s # <<>> /\ IsSpace(Head(s)) THEN trimStart(Tail(s)) ELSE s

RECURSIVE trimEnd(_)
trimEnd(s) ==
  IF s # <<>> /\ IsSpace(s[Len(s)]) THEN trimEnd(SubSeq(s, 1, Len(s) - 1)) ELSE s

trim(s) == trimEnd(trimStart(s))

\* the canonical names as character sequences
CityChars(c) ==
  CASE c = "Bangalore" -> <<"B","a","n","g","a","l","o","r","e">>
    [] c = "Mumbai" -> <<"M","u","m","b","a","i">>
    [] c = "Delhi" -> <<"D","e","l","h","i">>

\* a normaliser that hands an unrecognised name back instead of the default
normalizeCityKeepsUnknown(input) ==
  IF ~input.def \/ input.str = <<>> THEN DEFAULT_CITY
  ELSE LET v == toLowerCase(trim(input.str)) IN
    IF v = <<"b","a","n","g","a","l","o","r","e">> \/ v = <<"b","l","r">> THEN "Bangalore"
    ELSE IF v = <<"m","u","m","b","a","i">> \/ v = <<"b","o","m">> THEN "Mumbai"
    ELSE IF v = <<"d","e","l","h","i">> \/ v = <<"n","c","r">> THEN "Delhi"
    ELSE "Unknown"
normalizeCity(input) ==
  IF ~input.def \/ input.str = <<>> THEN DEFAULT_CITY
  ELSE LET v == toLowerCase(trim(input.str)) IN
    IF v = <<"b","a","n","g","a","l","o","r","e">> \/ v = <<"b","l","r">> THEN "Bangalore"
    ELSE IF v = <<"m","u","m","b","a","i">> \/ v = <<"b","o","m">> THEN "Mumbai"
    ELSE IF v = <<"d","e","l","h","i">> \/ v = <<"n","c","r">> THEN "Delhi"
    ELSE DEFAULT_CITY

validateCity(raw) ==
  IF ~raw.def \/ trim(raw.str) = <<>>
  THEN [valid |-> TRUE, normalized |-> DEFAULT_CITY]
  ELSE LET normalized == normalizeCity(raw)
           allowed == {"Bangalore", "Mumbai", "Delhi"}
       IN IF normalized \notin allowed
          THEN [valid |-> FALSE, normalized |-> ""]
          ELSE [valid |-> TRUE, normalized |-> normalized]


(***************************************************************************)
(* State.                                                                  *)
(***************************************************************************)
VARIABLES
  tomtomKey,    \* process.env.TOMTOM_API_KEY is set (fixed for the process)
  now,          \* wall clock, ms
  ticks,        \* firings of the setInterval callback so far
  schedulerOn,  \* the process is alive and its interval timer is armed
  cities,       \* TrafficStore.cities: city -> [segments, history, lastSnapshot]
  pending,      \* insertMany calls submitted and not yet answered
  db,           \* batches the persisted store holds
  nextWid,      \* number of insertMany calls made so far
  log,          \* logger: number of entries per message
  live,         \* /live requests: slot -> [pc, raw, city, resp]
  hist,         \* the /history request being served
  pred,         \* the /predict request being served
  call          \* a service function called on its own: [fn, args, ret, done]

vars == <<tomtomKey, now, ticks, schedulerOn, cities, pending, db, nextWid, log, live,
          hist, pred, call>>

apiVars == <<hist, pred>>

\* no function is being called on its own
NoCall == [fn |-> "", done |-> FALSE]

\* null
NoSnapshot == [city |-> "", timestamp |-> -1, source |-> "none"]

LiveSlots == 1..MaxRequests

NoResp == [status |-> 0, code |-> "", snapshot |-> NoSnapshot]

\* the city query values tried on the endpoints
RawCityInputs ==
  { Undef,
    Raw(<<>>),
    Raw(<<"M","u","m","b","a","i">>),
    Raw(<<" ","D","E","L","H","I"," ">>),
    Raw(<<"b","l","r">>),
    Raw(<<"P","a","r","i","s">>) }

\* the ones tried while the scheduler and the store run alongside: the
\* default, a supported city written loosely, an unsupported one
LiveCityInputs ==
  { Undef,
    Raw(<<" ","D","E","L","H","I"," ">>),
    Raw(<<"P","a","r","i","s">>) }

(***************************************************************************)
(* TrafficStore                                                            *)
(***************************************************************************)
\* (Date.now() % 100000) + normalized.length * 9973
seedAt(t, normalized) == (t % 100000) + Len(CityChars(normalized)) * 9973

\* the entry _ensureCity creates at time t; the segment list is kept by the
\* arguments it was generated from: generateSegmentsForCity(city, seed)
NewCityState(normalized, t) ==
  [segments |-> [city |-> normalized, seed |-> seedAt(t, normalized)],
   history |-> <<>>, lastSnapshot |-> NoSnapshot]

\* _ensureCity: the entry of the normalized city, created if the map lacks it
ensureCityAnew(cs, city, t) == NewCityState(normalizeCity(Raw(CityChars(city))), t)
ensureCity(cs, city, t) ==
  LET normalized == normalizeCity(Raw(CityChars(city)))
  IN IF normalized \in DOMAIN cs THEN cs[normalized] ELSE NewCityState(normalized, t)

\* the map with the entry of a city replaced (the entry object is mutated in
\* place; _ensureCity has set it in the map if it was new)
\* one context shared by every city
setCityShared(cs, normalized, ctx) == [c \in DOMAIN cs \cup {normalized} |-> ctx]
setCity(cs, normalized, ctx) ==
  [c \in DOMAIN cs \cup {normalized} |-> IF c = normalized THEN ctx ELSE cs[c]]

\* _ensureCity as its callers see the map afterwards: the entry of the city is
\* in the map, created only if it was missing
ensuredAfresh(cs, city, t) ==
  setCity(cs, normalizeCity(Raw(CityChars(city))),
          NewCityState(normalizeCity(Raw(CityChars(city))), t))
ensured(cs, city, t) ==
  setCity(cs, normalizeCity(Raw(CityChars(city))), ensureCity(cs, city, t))

\* constructor: every key of CITY_BBOX is pre-seeded by _ensureCity
constructed(t) == [c \in Cities |-> ensureCity(<<>>, c, t)]

\* _buildSimulatedSnapshot: timestamp = wall clock at build
buildSimulatedSnapshot(city, t) ==
  [city |-> normalizeCity(Raw(CityChars(city))), timestamp |-> t, source |-> "simulated"]

\* fetchRealTimeCity, the snapshot built from a well-formed provider answer
buildTomTomSnapshot(city, t) ==
  [city |-> city, timestamp |-> t, source |-> "tomtom"]

\* history.push(s); if (history.length > 500) history.splice(0, history.length - 500)
pushNoEvict(h, s) == Append(h, s)
pushEvictNewest(h, s) ==
  LET h2 == Append(h, s) IN
  IF Len(h2) > HISTORY_CAP THEN SubSeq(h2, 1, HISTORY_CAP) ELSE h2
\* unshift in place of push: the newest snapshot goes to the front
pushFront(h, s) ==
  LET g == <<s>> \o h
  IN IF Len(g) > HISTORY_CAP THEN SubSeq(g, 1, HISTORY_CAP) ELSE g
pushCapped(h, s) ==
  LET h2 == Append(h, s) IN
  IF Len(h2) > HISTORY_CAP
  THEN SubSeq(h2, (Len(h2) - HISTORY_CAP) + 1, Len(h2))
  ELSE h2

\* ctx.lastSnapshot = s; ctx.history.push(s); cap
recordNoLast(ctx, s) == [ctx EXCEPT !.history = pushCapped(@, s)]
recordSnapshot(ctx, s) ==
  [ctx EXCEPT !.history = pushCapped(@, s), !.lastSnapshot = s]

\* the record batch of one snapshot handed to TrafficRecord.insertMany
WriteOf(s, wid) ==
  [wid |-> wid, city |-> s.city, timestamp |-> s.timestamp, source |-> s.source]

\* (async () => { ... await TrafficRecord.insertMany(docs) ... })() : the call
\* is made and its promise is left unawaited
submitAwaited(pend, w) == pend
submitInsertMany(pend, w) == pend \cup {w}

\* catch (err) { logger.warn(...) } around insertMany: the rejection stops there
rejectionUncaught(alive) == FALSE
persistRejected(alive) == alive

Bump(l, k) == [l EXCEPT ![k] = @ + 1]

CityIndex(c) == CHOOSE i \in 1..Len(CityOrder) : CityOrder[i] = c

(***************************************************************************)
(* Scheduler: the setInterval callback of _startScheduler.                 *)
(***************************************************************************)
\* the cities the forEach handles in a tick (none in real-data mode)
tickSkipsLast(key) == IF key THEN {} ELSE Cities \ {CityOrder[Len(CityOrder)]}
\* a forEach that does not look at the key
tickIgnoresKey(key) == Cities
tickCities(key) == IF key THEN {} ELSE Cities

SchedulerTick ==
  /\ schedulerOn
  /\ now' = now + TickIntervalMs
  /\ ticks' = ticks + 1
  /\ LET done == tickCities(tomtomKey)
         snap(c) == buildSimulatedSnapshot(c, now')
         wid(c) == nextWid + Cardinality({d \in done : CityIndex(d) < CityIndex(c)})
     IN /\ cities' = [c \in DOMAIN cities \cup done |->
                        IF c \in done THEN recordSnapshot(ensureCity(cities, c, now'), snap(c))
                        ELSE cities[c]]
        /\ pending' = IF done = {} THEN pending
                      ELSE UNION {submitInsertMany(pending, WriteOf(snap(c), wid(c))) : c \in done}
        /\ nextWid' = nextWid + Cardinality(done)
  /\ UNCHANGED apiVars
  /\ UNCHANGED call
  /\ UNCHANGED <<tomtomKey, schedulerOn, db, log, live>>

\* The same callback when building (where = "build") or storing (where =
\* "store") the snapshot of the k-th city throws: the cities before it are
\* done, the forEach is abandoned, the catch of the callback logs the error.
tickThrowEscapes(alive) == FALSE
tickThrowCaught(alive) == alive

SchedulerTickThrows(k, where) ==
  /\ schedulerOn
  /\ ~tomtomKey
  /\ now' = now + TickIntervalMs
  /\ ticks' = ticks + 1
  /\ LET done == {c \in Cities : CityIndex(c) < k}
         snap(c) == buildSimulatedSnapshot(c, now')
         wid(c) == nextWid + Cardinality({d \in done : CityIndex(d) < CityIndex(c)})
     IN /\ cities' = [c \in DOMAIN cities \cup done |->
                        IF c \in done THEN recordSnapshot(ensureCity(cities, c, now'), snap(c))
                        ELSE IF CityIndex(c) = k /\ where = "store"
                        THEN [cities[c] EXCEPT !.lastSnapshot = snap(c)]
                        ELSE cities[c]]
        /\ pending' = IF done = {} THEN pending
                      ELSE UNION {submitInsertMany(pending, WriteOf(snap(c), wid(c))) : c \in done}
        /\ nextWid' = nextWid + Cardinality(done)
  /\ schedulerOn' = tickThrowCaught(schedulerOn)
  /\ log' = Bump(log, "tickError")
  /\ UNCHANGED apiVars
  /\ UNCHANGED call
  /\ UNCHANGED <<tomtomKey, db, live>>

(***************************************************************************)
(* Persisted store: the answer to an insertMany call.                      *)
(***************************************************************************)
InsertManyResolves(w) ==
  /\ w \in pending
  /\ pending' = pending \ {w}
  /\ db' = db \cup {w}
  /\ log' = Bump(log, "persistOk")
  /\ UNCHANGED apiVars
  /\ UNCHANGED call
  /\ UNCHANGED <<tomtomKey, now, ticks, schedulerOn, cities, nextWid, live>>

InsertManyRejects(w) ==
  /\ w \in pending
  /\ pending' = pending \ {w}
  /\ log' = Bump(log, "persistWarn")
  /\ schedulerOn' = persistRejected(schedulerOn)
  /\ UNCHANGED apiVars
  /\ UNCHANGED call
  /\ UNCHANGED <<tomtomKey, now, ticks, cities, db, nextWid, live>>


(***************************************************************************)
(* GET /api/traffic/live: TrafficController.live, getLiveSnapshot and      *)
(* fetchRealTimeCity.                                                      *)
(***************************************************************************)
NoLive == [pc |-> "new", raw |-> Undef, city |-> "", resp |-> NoResp]
ValidationError == [status |-> 400, code |-> "VALIDATION_ERROR", snapshot |-> NoSnapshot]
Ok(s) == [status |-> 200, code |-> "", snapshot |-> s]

\* getLiveSnapshot from "Simulation mode" on (lines 325-350): the effect on the
\* city and on the submitted writes, and the snapshot returned
\* a simulated path that builds and records a snapshot on every request
SimulatedPathAlwaysBuilds(city) ==
  LET ctx == ensureCity(cities, city, now)
      snap == buildSimulatedSnapshot(city, now)
  IN [ctx |-> recordSnapshot(ctx, snap),
      pend |-> submitInsertMany(pending, WriteOf(snap, nextWid)),
      wid |-> nextWid + 1,
      ret |-> snap]
SimulatedPath(city) ==
  LET ctx == ensureCity(cities, city, now)
      snap == buildSimulatedSnapshot(city, now)
  IN IF ctx.lastSnapshot = NoSnapshot
     THEN [ctx |-> recordSnapshot(ctx, snap),
           pend |-> submitInsertMany(pending, WriteOf(snap, nextWid)),
           wid |-> nextWid + 1,
           ret |-> recordSnapshot(ctx, snap).lastSnapshot]
     ELSE [ctx |-> ctx, pend |-> pending, wid |-> nextWid, ret |-> ctx.lastSnapshot]

\* the request arrives: validateCity, then getLiveSnapshot up to its first await
LiveArrives(r, raw) ==
  /\ live[r].pc = "new"
  /\ \A q \in LiveSlots : q < r => live[q].pc # "new"   \* slots are taken in order
  /\ LET v == validateCity(raw) IN
     IF ~v.valid
     THEN /\ live' = [live EXCEPT ![r] = [pc |-> "done", raw |-> raw, city |-> "",
                                           resp |-> ValidationError]]
          /\ UNCHANGED <<cities, pending, nextWid>>
     ELSE LET city == normalizeCity(Raw(CityChars(v.normalized))) IN
          IF tomtomKey
          THEN /\ live' = [live EXCEPT ![r] = [pc |-> "awaitFetch", raw |-> raw,
                                                city |-> city, resp |-> NoResp]]
               /\ UNCHANGED <<cities, pending, nextWid>>
          ELSE LET p == SimulatedPath(city) IN
               /\ cities' = setCity(cities, city, p.ctx)
               /\ pending' = p.pend
               /\ nextWid' = p.wid
               /\ live' = [live EXCEPT ![r] = [pc |-> "done", raw |-> raw,
                                                city |-> city, resp |-> Ok(p.ret)]]
  /\ UNCHANGED apiVars
  /\ UNCHANGED call
  /\ UNCHANGED <<tomtomKey, now, ticks, schedulerOn, db, log>>

\* the provider answers with a well-formed flowSegmentData: fetchRealTimeCity
\* builds the snapshot and submits its write, getLiveSnapshot records it
FetchSucceeds(r) ==
  /\ live[r].pc = "awaitFetch"
  /\ LET city == live[r].city
         tt == buildTomTomSnapshot(city, now)
     IN /\ pending' = submitInsertMany(pending, WriteOf(tt, nextWid))
        /\ nextWid' = nextWid + 1
        /\ cities' = setCity(cities, city, recordSnapshot(ensureCity(cities, city, now), tt))
        /\ live' = [live EXCEPT ![r].pc = "done", ![r].resp = Ok(tt)]
  /\ log' = Bump(log, "tomtomOk")
  /\ UNCHANGED apiVars
  /\ UNCHANGED call
  /\ UNCHANGED <<tomtomKey, now, ticks, schedulerOn, db>>

\* the fetch fails (network error, non-OK status, malformed body): the catch in
\* getLiveSnapshot logs it and execution continues on the simulated path
FetchFails(r) ==
  /\ live[r].pc = "awaitFetch"
  /\ LET city == live[r].city
         p == SimulatedPath(city)
     IN /\ cities' = setCity(cities, city, p.ctx)
        /\ pending' = p.pend
        /\ nextWid' = p.wid
        /\ live' = [live EXCEPT ![r].pc = "done", ![r].resp = Ok(p.ret)]
  /\ log' = Bump(log, "tomtomWarn")
  /\ UNCHANGED apiVars
  /\ UNCHANGED call
  /\ UNCHANGED <<tomtomKey, now, ticks, schedulerOn, db>>

(***************************************************************************)
(* Query values of /history and /predict.                                  *)
(***************************************************************************)
\* from, to: absent, '', a text Date.parse rejects, or the ISO text of a time
TsUndef == [def |-> FALSE, empty |-> FALSE, nan |-> TRUE, ms |-> 0]
TsEmpty == [def |-> TRUE, empty |-> TRUE, nan |-> TRUE, ms |-> 0]
TsBad == [def |-> TRUE, empty |-> FALSE, nan |-> TRUE, ms |-> 0]
toISOString(t) == [def |-> TRUE, empty |-> FALSE, nan |-> FALSE, ms |-> t]
TsInputs == {TsUndef, TsEmpty, TsBad, toISOString(StartMs), toISOString(StartMs + TickIntervalMs)}

\* JavaScript truthiness of a query value: undefined and '' are falsy
Truthy(v) == v.def /\ ~v.empty
\* isNaN(Date.parse(v))
DateParseIsNaN(v) == v.nan
\* new Date(v).getTime() of a text that parses
DateParse(v) == v.ms

\* no time: null
NoTime == -1

\* horizonMinutes: absent or a text; Number(text) in tenths
HUndef == [def |-> FALSE, text |-> ""]
HText(s) == [def |-> TRUE, text |-> s]
HorizonInputs ==
  {HUndef} \cup {HText(s) : s \in {"", "abc", "Infinity", "-5", "0", "0.5", "1", "15", "120",
                                   "120.5", "121"}}
Num(tenths) == [nan |-> FALSE, inf |-> FALSE, tenths |-> tenths]
Number(s) ==
  CASE s = "" -> Num(0)
    [] s = "abc" -> [nan |-> TRUE, inf |-> FALSE, tenths |-> 0]
    [] s = "Infinity" -> [nan |-> FALSE, inf |-> TRUE, tenths |-> 0]
    [] s = "-5" -> Num(-50)
    [] s = "0" -> Num(0)
    [] s = "0.5" -> Num(5)
    [] s = "1" -> Num(10)
    [] s = "15" -> Num(150)
    [] s = "120" -> Num(1200)
    [] s = "120.5" -> Num(1205)
    [] s = "121" -> Num(1210)
isFinite(n) == ~n.nan /\ ~n.inf
floor(n) == n.tenths \div 10
Max(a, b) == IF a > b THEN a ELSE b
Min(a, b) == IF a < b THEN a ELSE b

FormatInputs == {"", "points"}

(***************************************************************************)
(* Persisted store: find().sort({timestamp: -1}).limit(n)                  *)
(***************************************************************************)
SEGMENT_COUNT == 120
\* records in the batch of one snapshot: one per feature
FeatureCount(source) == IF source = "tomtom" THEN 1 ELSE SEGMENT_COUNT

RECURSIVE RowCount(_)
RowCount(S) ==
  IF S = {} THEN 0
  ELSE LET w == CHOOSE x \in S : TRUE IN FeatureCount(w.source) + RowCount(S \ {w})

\* the batches a query { city, timestamp: { $gte, $lte } } matches
Matching(city, gte, lte) ==
  {w \in db : /\ w.city = city
              /\ (gte # NoTime => w.timestamp >= gte)
              /\ (lte # NoTime => w.timestamp <= lte)}

\* of a matched set, the batches that reach into the newest `limit` records
Limited(S, limit) ==
  {w \in S : RowCount({x \in S : x.timestamp > w.timestamp}) < limit}

SetMin(S) == CHOOSE x \in S : \A y \in S : x <= y
SetMax(S) == CHOOSE x \in S : \A y \in S : x >= y

(***************************************************************************)
(* GET /api/traffic/history: TrafficController.history, getDbHistory,      *)
(* getHistory.                                                             *)
(***************************************************************************)
NoHistResp == [status |-> 0, code |-> "", mode |-> "", count |-> 0,
               from |-> NoTime, to |-> NoTime, format |-> ""]
NoHist == [pc |-> "new", city |-> Undef, from |-> TsUndef, to |-> TsUndef, format |-> "",
           qcity |-> "", qfrom |-> TsUndef, qto |-> TsUndef, warned |-> FALSE,
           at |-> NoTime, resp |-> NoHistResp]
HistInvalid == [NoHistResp EXCEPT !.status = 400, !.code = "VALIDATION_ERROR"]

\* if (v && isNaN(Date.parse(v))) return 400
timestampUnchecked(v) == FALSE
timestampRejected(v) == Truthy(v) /\ DateParseIsNaN(v)

HISTORY_LIMIT == 500
HistoryWindowMs == 3600000

\* t >= from && t <= to
inRangeBeforeTo(t, from, to) == t >= from /\ t < to
inRange(t, from, to) == t >= from /\ t <= to

\* ctx.history.filter(s => from <= time of s <= to)
historySamples(history, from, to) ==
  SelectSeq(history, LAMBDA s : inRange(s.timestamp, from, to))

\* Number((sum / n).toFixed(d)), in units of 10^-d: the nearest unit; when the
\* quotient lies midway between two units the binary value of the quotient
\* decides, which is either of them (tie is 0 or 1)
toFixed(sum, n, tie) ==
  LET q == sum \div n
      r == sum % n
  IN IF 2 * r < n THEN q ELSE IF 2 * r > n THEN q + 1 ELSE q + tie

\* all features of the samples, in the order forEach visits them
RECURSIVE allFeatures(_)
allFeatures(samples) ==
  IF samples = <<>> THEN <<>> ELSE Head(samples).features \o allFeatures(Tail(samples))

\* byId after the features fs have been added to it
RECURSIVE accumulate(_, _)
accumulate(byId, fs) ==
  IF fs = <<>> THEN byId
  ELSE LET f == Head(fs)
           v == IF f.id \in DOMAIN byId THEN byId[f.id]
                ELSE [speedSum |-> 0, densitySum |-> 0, congestionSum |-> 0, n |-> 0]
           w == [speedSum |-> v.speedSum + f.speedKph,
                 densitySum |-> v.densitySum + f.densityVpkm,
                 congestionSum |-> v.congestionSum + f.congestion,
                 n |-> v.n + 1]
       IN accumulate([id \in DOMAIN byId \cup {f.id} |-> IF id = f.id THEN w ELSE byId[id]],
                     Tail(fs))

\* the segments of getHistory's result, by id (speed and density in
\* hundredths, congestion in thousandths)
aggregateSegments(samples, tie) ==
  LET byId == accumulate([id \in {} |-> 0], allFeatures(samples))
  IN [id \in DOMAIN byId |->
        [avgSpeedKph |-> toFixed(byId[id].speedSum, byId[id].n, tie),
         avgDensityVpkm |-> toFixed(byId[id].densitySum, byId[id].n, tie),
         avgCongestion |-> toFixed(byId[id].congestionSum, byId[id].n, tie),
         samples |-> byId[id].n]]

\* store.getHistory(from, to, city): the in-memory aggregate
getHistory(fromISO, toISO, cityInput) ==
  LET city == normalizeCity(Raw(CityChars(cityInput)))
      ctx == ensureCity(cities, city, now)
      fromNaN == Truthy(fromISO) /\ DateParseIsNaN(fromISO)
      toNaN == Truthy(toISO) /\ DateParseIsNaN(toISO)
      from == IF Truthy(fromISO) THEN DateParse(fromISO) ELSE 0
      to == IF Truthy(toISO) THEN DateParse(toISO) ELSE now
      samples == historySamples(ctx.history, from, to)
  IN IF fromNaN \/ toNaN THEN HistInvalid
     ELSE [status |-> 200, code |-> "", mode |-> "memory", count |-> Len(samples),
           from |-> from, to |-> to, format |-> ""]

\* what getDbHistory returns for the documents find() delivered
getDbHistory(fromISO, toISO, limit, city) ==
  LET normalized == normalizeCity(Raw(CityChars(city)))
      gte == IF Truthy(fromISO) THEN DateParse(fromISO) ELSE NoTime
      lte == IF Truthy(toISO) THEN DateParse(toISO) ELSE NoTime
      matched == Matching(normalized, gte, lte)
      docs == Limited(matched, limit)
      times == {w.timestamp : w \in docs}
  IN [status |-> 200, code |-> "", mode |-> "db",
      count |-> Min(limit, RowCount(matched)),
      from |-> IF docs # {} THEN SetMin(times) ELSE gte,
      to |-> IF docs # {} THEN SetMax(times) ELSE lte,
      format |-> ""]

Shaped(resp, format) == [resp EXCEPT !.format = IF format = "points" THEN "points" ELSE "aggregate"]

\* from = new Date(now - 60 * 60 * 1000).toISOString(); to = new Date(now).toISOString()
defaultWindowOfOneTick(t) ==
  [from |-> toISOString(t - TickIntervalMs), to |-> toISOString(t)]
defaultWindow(t) ==
  [from |-> toISOString(t - HistoryWindowMs), to |-> toISOString(t)]

\* the request arrives: validation, default window, and the store query is issued
\* (pc "awaitDb": TrafficRecord.find is running)
HistoryArrives(craw, from, to, format) ==
  /\ hist.pc = "new"
  /\ LET v == validateCity(craw)
         city == v.normalized
         defaulted == ~Truthy(from) /\ ~Truthy(to)
         qfrom == IF defaulted THEN defaultWindow(now).from ELSE from
         qto == IF defaulted THEN defaultWindow(now).to ELSE to
         req == [NoHist EXCEPT !.city = craw, !.from = from, !.to = to, !.format = format,
                               !.at = now]
     IN IF ~v.valid \/ timestampRejected(qfrom) \/ timestampRejected(qto)
        THEN hist' = [req EXCEPT !.pc = "done", !.resp = HistInvalid]
        ELSE hist' = [req EXCEPT !.pc = "awaitDb", !.qcity = city,
                                 !.qfrom = qfrom, !.qto = qto]
  /\ UNCHANGED call
  /\ UNCHANGED <<tomtomKey, now, ticks, schedulerOn, cities, pending, db, nextWid, log, live, pred>>

\* if (!data || data.count === 0): serve the in-memory aggregate
fallsBackNever(data) == FALSE
fallsBackToMemory(data) == data.count = 0

\* the store delivers the documents
HistoryDbAnswers ==
  /\ hist.pc = "awaitDb"
  /\ LET data == getDbHistory(hist.qfrom, hist.qto, HISTORY_LIMIT, hist.qcity)
         mem == getHistory(hist.qfrom, hist.qto, hist.qcity)
     IN hist' = [hist EXCEPT !.pc = "done",
                             !.resp = IF fallsBackToMemory(data) THEN Shaped(mem, hist.format)
                                      ELSE Shaped(data, hist.format)]
  /\ cities' = IF fallsBackToMemory(getDbHistory(hist.qfrom, hist.qto, HISTORY_LIMIT,
                                                   hist.qcity))
                 THEN ensured(cities, hist.qcity, now)
                 ELSE cities
  /\ UNCHANGED call
  /\ UNCHANGED <<tomtomKey, now, ticks, schedulerOn, pending, db, nextWid, log, live,
                 pred>>

\* catch (dbErr): a warning is logged, data stays null and the handler goes on
dbErrorSurfaced(mem) == [NoHistResp EXCEPT !.status = 500, !.code = "INTERNAL"]
dbErrorRecovered(mem) == mem

\* the store query throws: logged, the in-memory aggregate is served
HistoryDbFails ==
  /\ hist.pc = "awaitDb"
  /\ hist' = [hist EXCEPT !.pc = "done", !.warned = TRUE,
                          !.resp = Shaped(dbErrorRecovered(
                                            getHistory(hist.qfrom, hist.qto, hist.qcity)),
                                          hist.format)]
  /\ cities' = ensured(cities, hist.qcity, now)
  /\ UNCHANGED call
  /\ UNCHANGED <<tomtomKey, now, ticks, schedulerOn, pending, db, nextWid, log, live,
                 pred>>

(***************************************************************************)
(* GET /api/traffic/predict: TrafficController.predict and                 *)
(* predictTrendBased up to the mode it answers in.                         *)
(***************************************************************************)
NoPredResp == [status |-> 0, code |-> "", mode |-> "", horizonMinutes |-> 0, steps |-> 0,
               fields |-> {}, metaFields |-> {}, stepMinutes |-> 0, timestamp |-> NoTime,
               pointTimes |-> <<>>]
NoPred == [pc |-> "new", city |-> Undef, horizonStr |-> HUndef, qcity |-> "",
           horizon |-> 0, warned |-> FALSE, resp |-> NoPredResp]
PredInvalid == [NoPredResp EXCEPT !.status = 400, !.code = "VALIDATION_ERROR",
                                  !.fields = {"error"}]

DEFAULT_HORIZON == 30
MAX_HORIZON == 120
STEP_MIN == 5
PREDICT_LIMIT == 1000

\* !Number.isFinite(parsed) || parsed <= 0 || parsed > 120
horizonRejected(parsed) ==
  ~isFinite(parsed) \/ parsed.tenths <= 0 \/ parsed.tenths > MAX_HORIZON * 10

\* the request arrives: validation, then predictTrendBased up to its store query
PredictArrives(craw, horizonStr) ==
  /\ pred.pc = "new"
  /\ LET parsed == Number(horizonStr.text)
         horizon == IF horizonStr.def THEN floor(parsed) ELSE DEFAULT_HORIZON
         v == validateCity(craw)
         req == [NoPred EXCEPT !.city = craw, !.horizonStr = horizonStr]
     IN IF (horizonStr.def /\ horizonRejected(parsed)) \/ ~v.valid
        THEN pred' = [req EXCEPT !.pc = "done", !.resp = PredInvalid]
        ELSE pred' = [req EXCEPT !.pc = "awaitDb",
                                 !.qcity = normalizeCity(Raw(CityChars(v.normalized))),
                                 !.horizon = horizon]
  /\ cities' = IF (horizonStr.def /\ horizonRejected(Number(horizonStr.text)))
                    \/ ~validateCity(craw).valid
                 THEN cities
                 ELSE ensured(cities, validateCity(craw).normalized, now)
  /\ UNCHANGED call
  /\ UNCHANGED <<tomtomKey, now, ticks, schedulerOn, pending, db, nextWid, log, live, hist>>

MsPerMinute == 60000

\* steps = Math.max(1, Math.floor(horizonMinutes / stepMin))
stepsFloorOnly(horizonMinutes) == horizonMinutes \div STEP_MIN
stepsOf(horizonMinutes) == Max(1, horizonMinutes \div STEP_MIN)

\* the result of predictShortTerm with meta put beside it
FallbackResult ==
  [status |-> 200, code |-> "", mode |-> "fallback-simulated",
   horizonMinutes |-> pred.horizon, steps |-> stepsOf(pred.horizon),
   fields |-> {"city", "timestamp", "horizonMinutes", "features", "meta"},
   metaFields |-> {"mode", "stepMinutes"}, stepMinutes |-> 0, timestamp |-> now,
   pointTimes |-> <<>>]

\* the result built from the collected samples: per segment one point per step
TrendResult ==
  [status |-> 200, code |-> "", mode |-> "trend",
   horizonMinutes |-> pred.horizon, steps |-> stepsOf(pred.horizon),
   fields |-> {"city", "timestamp", "horizonMinutes", "stepMinutes", "features",
               "timeSeries", "meta"},
   metaFields |-> {"mode", "segments"}, stepMinutes |-> STEP_MIN, timestamp |-> now,
   pointTimes |-> [i \in 1..stepsOf(pred.horizon) |-> now + i * STEP_MIN * MsPerMinute]]

\* the result of predictTrendBased, given whether the store gave samples
PredictResultStoreOnly(fromDb) ==
  IF fromDb THEN TrendResult ELSE FallbackResult
PredictResult(fromDb) ==
  LET ctx == ensureCity(cities, pred.qcity, now)
  IN IF fromDb \/ Len(ctx.history) > 0 THEN TrendResult ELSE FallbackResult

\* _collectRecentFromDb gets its documents
PredictDbAnswers ==
  /\ pred.pc = "awaitDb"
  /\ LET docs == Limited(Matching(pred.qcity, NoTime, NoTime), PREDICT_LIMIT)
     IN pred' = [pred EXCEPT !.pc = "done", !.resp = PredictResult(docs # {})]
  /\ cities' = ensured(cities, pred.qcity, now)   \* predictShortTerm, when it is the fallback
  /\ UNCHANGED call
  /\ UNCHANGED <<tomtomKey, now, ticks, schedulerOn, pending, db, nextWid, log, live,
                 hist>>

\* _collectRecentFromDb throws: logged, the in-memory history is used
PredictDbFails ==
  /\ pred.pc = "awaitDb"
  /\ pred' = [pred EXCEPT !.pc = "done", !.warned = TRUE, !.resp = PredictResult(FALSE)]
  /\ cities' = ensured(cities, pred.qcity, now)   \* predictShortTerm, when it is the fallback
  /\ UNCHANGED call
  /\ UNCHANGED <<tomtomKey, now, ticks, schedulerOn, pending, db, nextWid, log, live,
                 hist>>

\* the responses have been sent; the finished requests are forgotten
ResponseSent ==
  /\ hist.pc = "done" \/ pred.pc = "done" \/ live[1].pc = "done"
  /\ hist.pc # "awaitDb" /\ pred.pc # "awaitDb" /\ live[1].pc # "awaitFetch"
  /\ hist' = NoHist
  /\ pred' = NoPred
  /\ live' = [live EXCEPT ![1] = IF @.pc = "done" THEN [NoLive EXCEPT !.pc = "sent"] ELSE @]
  /\ UNCHANGED call
  /\ UNCHANGED <<tomtomKey, now, ticks, schedulerOn, cities, pending, db, nextWid, log>>

\* no request is being served
Idle == hist.pc = "new" /\ pred.pc = "new" /\ live[1].pc \in {"new", "sent"}

(***************************************************************************)
(* TrafficStore.getHistory called on a buffer whose snapshots carry their  *)
(* features: [id, speedKph, densityVpkm, congestion].                      *)
(***************************************************************************)
\* feature values as the snapshot builders round them: speed and density to
\* 2 decimals (here in hundredths), congestion to 3 (in thousandths)
FeatureValues ==
  { [speedKph |-> 1000, densityVpkm |-> 500, congestion |-> 250],
    [speedKph |-> 4251, densityVpkm |-> 2001, congestion |-> 1000] }
Feature(id, v) ==
  [id |-> id, speedKph |-> v.speedKph, densityVpkm |-> v.densityVpkm,
   congestion |-> v.congestion]
\* the feature lists tried: a segment alone, or two segments
FeatureLists ==
  {<<Feature("seg_1", v)>> : v \in FeatureValues}
    \cup {<<Feature("seg_1", v), Feature("seg_2", u)>> : v \in FeatureValues, u \in FeatureValues}

BufferLen == 3
\* the buffers tried: BufferLen snapshots one tick apart, oldest first
Buffers ==
  {[i \in 1..BufferLen |->
      [city |-> DEFAULT_CITY, timestamp |-> StartMs + i * TickIntervalMs,
       source |-> "simulated", features |-> fl[i]]] : fl \in [1..BufferLen -> FeatureLists]}
BufferTimes ==
  {TsUndef} \cup {toISOString(StartMs + i * TickIntervalMs) : i \in 1..BufferLen}

HistoryCalls ==
  {[fn |-> "getHistory", done |-> FALSE,
    args |-> [history |-> b, fromISO |-> f, toISO |-> u,
              nowMs |-> StartMs + BufferLen * TickIntervalMs]] :
     b \in Buffers, f \in BufferTimes, u \in BufferTimes}

\* getHistory runs on the buffer and returns count and segments
GetHistoryReturns(tie) ==
  /\ call.fn = "getHistory" /\ ~call.done
  /\ LET a == call.args
         from == IF Truthy(a.fromISO) THEN DateParse(a.fromISO) ELSE 0
         to == IF Truthy(a.toISO) THEN DateParse(a.toISO) ELSE a.nowMs
         samples == historySamples(a.history, from, to)
     IN call' = [fn |-> call.fn, args |-> a, done |-> TRUE,
                 ret |-> [from |-> from, to |-> to, count |-> Len(samples),
                          segments |-> aggregateSegments(samples, tie)]]
  /\ UNCHANGED <<tomtomKey, now, ticks, schedulerOn, cities, pending, db, nextWid, log, live,
                 hist, pred>>

(***************************************************************************)
(* The trend predictor on the samples of one segment: _collectRecentFromDb *)
(* / _collectRecentFromMemory, buildRegressionSeries and the points loop   *)
(* of predictTrendBased. Speed and density are in hundredths, congestion   *)
(* in thousandths, times in ms on the 10 s grid of the scheduler. Real     *)
(* numbers are kept exact as fractions [p, q] with q > 0.                  *)
(***************************************************************************)
Abs(a) == IF a < 0 THEN 0 - a ELSE a
RECURSIVE Gcd(_, _)
Gcd(a, b) == IF b = 0 THEN a ELSE Gcd(b, a % b)
\* the fraction p/q in lowest terms
Frac(p, q) == LET g == Gcd(Abs(p), q) IN [p |-> p \div g, q |-> q \div g]

\* Math.round(v * 100) / 100 of v = p/q, in hundredths when v is in hundredths:
\* floor(v + 1/2)
round2(v) == (2 * v.p + v.q) \div (2 * v.q)

FLOOR == 500           \* Math.max(5, ...), in hundredths
\* round2(80 / Math.max(5, speedKph)), in hundredths
inferDensity(speedKph) == round2(Frac(800000, Max(FLOOR, speedKph)))

\* the samples of a segment as _collectRecentFromDb leaves them: density is
\* not stored and is inferred from the speed
samplesFromDb(rows) ==
  [i \in 1..Len(rows) |->
     [t |-> rows[i].t, speedKph |-> rows[i].speedKph,
      densityVpkm |-> inferDensity(rows[i].speedKph)]]
\* the samples of a segment as _collectRecentFromMemory leaves them
samplesFromMemory(rows) == rows

RECURSIVE SeqSum(_)
SeqSum(s) == IF s = <<>> THEN 0 ELSE Head(s) + SeqSum(Tail(s))

\* buildRegressionSeries(samples, nowMs, stepMin, steps) for samples [t, v]
buildRegressionSeriesNoTrend(samples, nowMs, stepMin, steps) ==
  [i \in 1..steps |-> Frac(samples[Len(samples)].v, 1)]
buildRegressionSeries(samples, nowMs, stepMin, steps) ==
  LET n == Len(samples)
      t0 == samples[1].t
      xs == [i \in 1..n |-> (samples[i].t - t0) \div TickIntervalMs]
      ys == [i \in 1..n |-> samples[i].v]
      sx == SeqSum(xs)
      sy == SeqSum(ys)
      \* num and den of the slope, both times n * n
      num == SeqSum([i \in 1..n |-> (n * xs[i] - sx) * (n * ys[i] - sy)])
      den == SeqSum([i \in 1..n |-> (n * xs[i] - sx) * (n * xs[i] - sx)])
      slope == IF den = 0 THEN Frac(0, 1) ELSE Frac(num, den)   \* per 10 s
      \* variance < 1e-6 && Math.abs(slope) < 1e-6 (slope per minute)
      devs == SeqSum([i \in 1..n |-> (n * ys[i] - sy) * (n * ys[i] - sy)])
      useMA == 100 * devs < n * n * n /\ 6 * Abs(slope.p) * 10000 < slope.q
      lastX == xs[n]
      futureT(i) == (nowMs - t0) \div TickIntervalMs
                      + i * ((stepMin * MsPerMinute) \div TickIntervalMs)
  IN IF n = 1 THEN [i \in 1..steps |-> Frac(samples[1].v, 1)]
     ELSE [i \in 1..steps |->
             IF useMA THEN Frac(sy, n)
             ELSE Frac(sy * slope.q + slope.p * (n * Max(futureT(i), lastX) - sx),
                       n * slope.q)]

\* clamp01(round3((density / 80 + (1 - speed / 80)) / 2)), in thousandths
congestionUnclamped(speed, density) == (2 * (density - speed + 8000) + 16) \div 32
congestionOf(speed, density) ==
  LET raw == (2 * (density - speed + 8000) + 16) \div 32
  IN Max(0, Min(1000, raw))

\* one point of the loop, lines 585-590, from the values of the two series
pointOf(ts, speedValue, densityValue) ==
  LET speed == Max(FLOOR, round2(speedValue))
      density == Max(FLOOR, round2(densityValue))
  IN [timestamp |-> ts, speedKph |-> speed, densityVpkm |-> density,
      congestion |-> congestionOf(speed, density)]

\* the points of one segment's time series
seriesPoints(samples, nowMs, stepMin, steps) ==
  LET speedSeries == buildRegressionSeries(
                       [i \in 1..Len(samples) |-> [t |-> samples[i].t, v |-> samples[i].speedKph]],
                       nowMs, stepMin, steps)
      densitySeries == buildRegressionSeries(
                         [i \in 1..Len(samples) |-> [t |-> samples[i].t, v |-> samples[i].densityVpkm]],
                         nowMs, stepMin, steps)
  IN [i \in 1..steps |->
        pointOf(nowMs + i * stepMin * MsPerMinute, speedSeries[i], densitySeries[i])]

MaxSamples == 4
\* the sample rows tried for a segment: 1..MaxSamples rows, a fixed time apart
\* (one tick, or ten minutes), the speed changing by a fixed amount per row
RowGaps == {TickIntervalMs, 60 * TickIntervalMs}
SpeedStarts == {800, 4000}
SpeedChanges == {-100, -1, 0, 1, 100}
Densities == {133, 1500}
SampleRows ==
  {[i \in 1..n |-> [t |-> StartMs + i * g, speedKph |-> s + (i - 1) * k, densityVpkm |-> d]] :
     n \in 1..MaxSamples, g \in RowGaps, s \in SpeedStarts, k \in SpeedChanges, d \in Densities}

TrendCalls ==
  {[fn |-> "predictTrendBased", done |-> FALSE,
    args |-> [source |-> src, rows |-> rows, horizonMinutes |-> h,
              nowMs |-> rows[Len(rows)].t + TickIntervalMs]] :
     src \in {"db", "memory"}, rows \in SampleRows, h \in {15, 30}}

\* predictTrendBased builds the series of the segment from its samples
PredictSeriesReturns ==
  /\ call.fn = "predictTrendBased" /\ ~call.done
  /\ LET a == call.args
         samples == IF a.source = "db" THEN samplesFromDb(a.rows)
                    ELSE samplesFromMemory(a.rows)
         steps == stepsOf(a.horizonMinutes)
     IN call' = [fn |-> call.fn, args |-> a, done |-> TRUE,
                 ret |-> [samples |-> samples,
                          points |-> seriesPoints(samples, a.nowMs, STEP_MIN, steps)]]
  /\ UNCHANGED <<tomtomKey, now, ticks, schedulerOn, cities, pending, db, nextWid, log, live,
                 hist, pred>>

(***************************************************************************)
(* Specifications.                                                         *)
(***************************************************************************)
LogKeys == {"persistOk", "persistWarn", "tomtomOk", "tomtomWarn", "tickError"}

InitStore ==
  /\ now = StartMs
  /\ ticks = 0
  /\ schedulerOn = TRUE
  /\ cities = constructed(StartMs)
  /\ pending = {}
  /\ db = {}
  /\ nextWid = 0
  /\ log = [k \in LogKeys |-> 0]
  /\ live = [r \in LiveSlots |-> NoLive]
  /\ hist = NoHist
  /\ pred = NoPred

Init ==
  /\ tomtomKey \in BOOLEAN
  /\ InitStore
  /\ call = NoCall

Next ==
  \/ ticks < MaxTicks /\ SchedulerTick
  \/ \E r \in LiveSlots, raw \in LiveCityInputs : LiveArrives(r, raw)
  \/ \E r \in LiveSlots : FetchSucceeds(r)
  \/ \E r \in LiveSlots : FetchFails(r)
  \/ \E w \in pending : InsertManyResolves(w)
  \/ \E w \in pending : InsertManyRejects(w)

Spec == Init /\ [][Next]_vars

\* The timer fires on its own; the provider and the store are outside the
\* process and owe it no answer.
FairSpec == Spec /\ WF_vars(ticks < MaxTicks /\ SchedulerTick)

\* A long run in simulation mode with the store unreachable (every insertMany
\* is rejected), far enough for the histories to pass HISTORY_CAP.
InitDeep ==
  /\ tomtomKey = FALSE
  /\ InitStore
  /\ call = NoCall

NextDeep ==
  \/ /\ ticks < DeepTicks
     /\ pending = {}    \* each rejection arrives before the next tick, 10 s later
     /\ SchedulerTick
  \/ /\ ticks = 0    \* the only time a /live request appends in simulation mode
     /\ \E raw \in LiveCityInputs : LiveArrives(1, raw)
  \/ \E w \in pending : InsertManyRejects(w)

SpecDeep == InitDeep /\ [][NextDeep]_vars

\* The three endpoints with every query value, one /history or /predict
\* request at a time, beside the scheduler and the store.
NextApi ==
  \/ ticks < MaxTicks /\ SchedulerTick
  \/ Idle /\ \E raw \in LiveCityInputs : LiveArrives(1, raw)
  \/ FetchSucceeds(1)
  \/ FetchFails(1)
  \/ \E w \in pending : InsertManyResolves(w)
  \/ \E w \in pending : InsertManyRejects(w)
  \/ Idle /\ \E craw \in LiveCityInputs, from \in TsInputs, to \in TsInputs,
                 format \in FormatInputs : HistoryArrives(craw, from, to, format)
  \/ HistoryDbAnswers
  \/ HistoryDbFails
  \/ Idle /\ \E craw \in LiveCityInputs, h \in HorizonInputs : PredictArrives(craw, h)
  \/ PredictDbAnswers
  \/ PredictDbFails
  \/ ResponseSent

SpecApi == Init /\ [][NextApi]_vars

\* /history over a store that persisted several ticks: each tick's writes are
\* stored before the next tick, and requests name a range around them.
RangeInputs == {toISOString(StartMs), toISOString(StartMs + RangeTicks * TickIntervalMs)}

NextRange ==
  \/ /\ ticks < RangeTicks
     /\ pending = {}
     /\ SchedulerTick
  \/ \E w \in pending : InsertManyResolves(w)
  \/ Idle /\ \E craw \in LiveCityInputs, from \in RangeInputs, to \in RangeInputs,
                 format \in FormatInputs : HistoryArrives(craw, from, to, format)
  \/ HistoryDbAnswers
  \/ HistoryDbFails
  \/ ResponseSent

SpecRange == InitDeep /\ [][NextRange]_vars

\* getHistory on every buffer and range tried.
InitHistoryCall ==
  /\ tomtomKey = FALSE
  /\ InitStore
  /\ call \in HistoryCalls

NextHistoryCall == \E tie \in {0, 1} : GetHistoryReturns(tie)

SpecHistoryCall == InitHistoryCall /\ [][NextHistoryCall]_vars

\* The trend predictor on every sample series tried.
InitTrendCall ==
  /\ tomtomKey = FALSE
  /\ InitStore
  /\ call \in TrendCalls

NextTrendCall == PredictSeriesReturns

SpecTrendCall == InitTrendCall /\ [][NextTrendCall]_vars

\* Runs in which building or storing a snapshot may throw inside a tick.
NextFault ==
  \/ ticks < FaultTicks /\ SchedulerTick
  \/ /\ ticks < FaultTicks
     /\ \E k \in 1..Len(CityOrder), where \in {"build", "store"} : SchedulerTickThrows(k, where)
  \/ \E w \in pending : InsertManyResolves(w)
  \/ \E w \in pending : InsertManyRejects(w)

SpecFault == InitDeep /\ [][NextFault]_vars


(***************************************************************************)
(* Properties.                                                             *)
(***************************************************************************)
Last(h) == h[Len(h)]
History(c) == cities[c].history

\* one step of a history: untouched, grown by one at the end, or (when full)
\* its oldest entry dropped and one entry added at the end
FifoStep(h, h2) ==
  \/ h2 = h
  \/ /\ Len(h) < HISTORY_CAP
     /\ Len(h2) = Len(h) + 1
     /\ SubSeq(h2, 1, Len(h)) = h
  \/ /\ Len(h) = HISTORY_CAP
     /\ Len(h2) = HISTORY_CAP
     /\ SubSeq(h2, 1, HISTORY_CAP - 1) = Tail(h)

C2_TickAdvancesEveryCity ==
  [][(ticks' = ticks + 1 /\ ~tomtomKey) =>
       \A c \in {"Bangalore", "Mumbai", "Delhi"} :
         /\ Len(cities'[c].history) = Min(Len(cities[c].history) + 1, HISTORY_CAP)
         /\ cities'[c].lastSnapshot = Last(cities'[c].history)
         /\ cities'[c].lastSnapshot =
              [city |-> c, timestamp |-> now', source |-> "simulated"]
         /\ FifoStep(cities[c].history, cities'[c].history)]_vars

\* a tick has just run on full histories
C2_Witness ==
  /\ ticks > HISTORY_CAP
  /\ \A c \in Cities :
       /\ Len(History(c)) = HISTORY_CAP
       /\ cities[c].lastSnapshot.timestamp = now

\* the writes that hold the batch of snapshot s
WritesOf(set, s) ==
  {w \in set : w.city = s.city /\ w.timestamp = s.timestamp /\ w.source = s.source}

\* C3: when a tick ends, the three cities are updated, the three batches it
\* submitted are still unanswered and so is every batch that was unanswered
\* when it began; when a /live request that built a snapshot gets its response,
\* the batch of that snapshot is still unanswered.
C3_NeverWaitsForPersistence ==
  /\ [][(ticks' = ticks + 1 /\ ~tomtomKey) =>
          /\ pending \subseteq pending'
          /\ \A c \in Cities :
                /\ cities'[c].lastSnapshot.timestamp = now'
                /\ WritesOf(pending', cities'[c].lastSnapshot) # {}]_vars
  /\ [][\A r \in LiveSlots :
          (live[r].pc # "done" /\ live'[r].pc = "done" /\ nextWid' > nextWid) =>
            /\ live'[r].resp.status = 200
            /\ \E w \in WritesOf(pending', live'[r].resp.snapshot) : w.wid = nextWid]_vars

\* a /live request was answered with a snapshot whose batch the store has not
\* answered, the tick fired after it, and the store has answered nothing
C3_Witness ==
  /\ ticks = MaxTicks
  /\ ~tomtomKey
  /\ db = {} /\ log.persistWarn = 0
  /\ \E r \in LiveSlots :
       /\ live[r].pc = "done"
       /\ live[r].resp.status = 200
       /\ WritesOf(pending, live[r].resp.snapshot) # {}
  /\ \E c \in Cities : WritesOf(pending, cities[c].lastSnapshot) # {}
  /\ \A r \in LiveSlots : live[r].pc = "done"

\* C4: a rejected insertMany adds a log entry and changes nothing else: cities,
\* responses and the store's contents are as they were, an answered batch of
\* either outcome leaves the cities alone, no /live response is an error of the
\* store, and the timer stays armed.
C4_WriteFailureOnlyLogged ==
  /\ [][log'.persistWarn > log.persistWarn =>
          /\ log'.persistWarn = log.persistWarn + 1
          /\ cities' = cities
          /\ live' = live
          /\ db' = db
          /\ schedulerOn' = schedulerOn]_vars
  /\ [][pending' \subseteq pending /\ pending' # pending => cities' = cities /\ live' = live]_vars
  /\ [](\A r \in LiveSlots : live[r].pc = "done" => live[r].resp.status \in {200, 400})
  /\ [](log.persistWarn > 0 => schedulerOn)

\* a batch was rejected, the request that caused it has its snapshot, and the
\* tick has fired
C4_Witness ==
  /\ log.persistWarn > 0
  /\ ticks = MaxTicks
  /\ schedulerOn
  /\ \E r \in LiveSlots :
       /\ live[r].pc = "done"
       /\ live[r].resp.status = 200
       /\ live[r].resp.snapshot.timestamp = StartMs
       /\ WritesOf(pending \cup db, live[r].resp.snapshot) = {}

\* C5: a throw inside a tick is logged by that tick and leaves the timer
\* armed.
C5_TickFailureCaught ==
  /\ [][log'.tickError > log.tickError =>
          /\ schedulerOn'
          /\ ticks' = ticks + 1]_vars
  /\ [](log.tickError > 0 => schedulerOn)

\* the first tick threw before reaching Delhi and the second ran for all three
C5_Witness ==
  /\ log.tickError = 1
  /\ ticks = 2
  /\ Len(History("Delhi")) = 1
  /\ \A c \in Cities : cities[c].lastSnapshot.timestamp = now /\ Last(History(c)).timestamp = now

\* C6: a /live request whose provider fetch failed is answered 200 with a
\* snapshot whose source is 'simulated'.
C6_FetchFailureServesSimulated ==
  [][\A r \in LiveSlots :
       (live[r].pc = "awaitFetch" /\ live'[r].pc = "done"
          /\ log'.tomtomWarn > log.tomtomWarn) =>
         /\ live'[r].resp.status = 200
         /\ live'[r].resp.snapshot.source = "simulated"]_vars

\* C7: every /live request that waits for the provider is eventually answered,
\* whether or not the provider answers.
C7_LiveAlwaysAnswered ==
  \A r \in LiveSlots : (live[r].pc = "awaitFetch") ~> (live[r].pc = "done")

\* the lowercase names and aliases the three supported cities are known by
KnownNames ==
  {toLowerCase(CityChars(c)) : c \in Cities}
    \cup {<<"b","l","r">>, <<"b","o","m">>, <<"n","c","r">>}
\* a city value that was supplied, is not blank and names no supported city
Unsupported(raw) ==
  raw.def /\ trim(raw.str) # <<>> /\ toLowerCase(trim(raw.str)) \notin KnownNames

\* C8: on /live, /history and /predict a request whose city value names no
\* supported city is answered 400 VALIDATION_ERROR and never served as data.
C8_UnsupportedCityRejected ==
  /\ \A r \in LiveSlots :
       (live[r].pc \in {"awaitFetch", "done"} /\ Unsupported(live[r].raw)) =>
         live[r].pc = "done" /\ live[r].resp = ValidationError
  /\ (hist.pc # "new" /\ Unsupported(hist.city)) =>
       hist.pc = "done" /\ hist.resp.status = 400 /\ hist.resp.code = "VALIDATION_ERROR"
  /\ (pred.pc # "new" /\ Unsupported(pred.city)) =>
       pred.pc = "done" /\ pred.resp.status = 400 /\ pred.resp.code = "VALIDATION_ERROR"

\* a number outside [1, 120], or no number at all
OutsideOneTo120(n) == n.nan \/ n.inf \/ n.tenths < 10 \/ n.tenths > 1200

\* C9: /predict answers 400 VALIDATION_ERROR to every supplied horizonMinutes
\* that is not a number within [1,120], and the horizon handed to the
\* predictor is an integer between 1 and 120.
C9_HorizonValidated ==
  /\ (pred.pc # "new" /\ pred.horizonStr.def
        /\ OutsideOneTo120(Number(pred.horizonStr.text))) =>
       pred.pc = "done" /\ pred.resp.status = 400 /\ pred.resp.code = "VALIDATION_ERROR"
  /\ pred.pc = "awaitDb" => pred.horizon \in 1..120

\* a supplied value Date.parse makes no time of ('' included)
Unparsable(v) == v.def /\ v.nan
\* a supplied, non-empty value Date.parse makes no time of
MalformedText(v) == v.def /\ ~v.empty /\ v.nan

\* C10 as stated: a /history request whose from or to cannot be parsed as a
\* timestamp is answered 400 VALIDATION_ERROR without a store query.
C10_UnparsableTimestampRejected ==
  (hist.pc # "new" /\ (Unparsable(hist.from) \/ Unparsable(hist.to))) =>
    hist.pc = "done" /\ hist.resp.status = 400 /\ hist.resp.code = "VALIDATION_ERROR"

\* C10 amended: a /history request whose from or to is a non-empty text that
\* cannot be parsed as a timestamp is answered 400 VALIDATION_ERROR at once:
\* no default window is put in its place, no store query is issued, and the
\* cities, the submitted writes and the persisted store stay as they were.
C10_MalformedTimestampRejected ==
  /\ [](hist.pc = "awaitDb" => ~MalformedText(hist.from) /\ ~MalformedText(hist.to))
  /\ [][(hist.pc = "new" /\ hist'.pc # "new"
           /\ (MalformedText(hist'.from) \/ MalformedText(hist'.to))) =>
          /\ hist'.pc = "done"
          /\ hist'.resp.status = 400 /\ hist'.resp.code = "VALIDATION_ERROR"
          /\ hist'.qfrom = TsUndef /\ hist'.qto = TsUndef
          /\ cities' = cities /\ pending' = pending /\ db' = db /\ nextWid' = nextWid]_vars

\* a request with a malformed from and a well-formed to was refused while the
\* store held snapshots and writes
C10_Witness ==
  /\ hist.pc = "done"
  /\ MalformedText(hist.from) /\ ~Unparsable(hist.to) /\ hist.to.def
  /\ hist.resp.status = 400
  /\ ticks = MaxTicks /\ db # {} /\ pending # {}

\* the lower and upper end of the range a /history request asked the store for
QueryGte(h) == IF h.qfrom.def /\ ~h.qfrom.empty THEN h.qfrom.ms ELSE NoTime
QueryLte(h) == IF h.qto.def /\ ~h.qto.empty THEN h.qto.ms ELSE NoTime
\* the persisted records of the request's city within its range
PersistedRows(h) ==
  RowCount({w \in db : /\ w.city = h.qcity
                       /\ (QueryGte(h) # NoTime => w.timestamp >= QueryGte(h))
                       /\ (QueryLte(h) # NoTime => w.timestamp <= QueryLte(h))})
\* the buffered snapshots of the request's city within its range
BufferedInRange(h) ==
  LET lo == IF QueryGte(h) = NoTime THEN 0 ELSE QueryGte(h)
      hi == IF QueryLte(h) = NoTime THEN now ELSE QueryLte(h)
  IN Cardinality({i \in 1..Len(cities[h.qcity].history) :
                    /\ cities[h.qcity].history[i].timestamp >= lo
                    /\ cities[h.qcity].history[i].timestamp <= hi})

NotSupplied(v) == ~v.def \/ v.empty

Persisted(city) == \E w \in db : w.city = city

\* C16: predictTrendBased answers in mode 'fallback-simulated' exactly when
\* the store gives no sample (it is empty for the city, or the query fails)
\* and the city's buffer is empty; otherwise in mode 'trend'.
C16_FallbackOnlyWithoutHistory ==
  [][(pred.pc = "awaitDb" /\ pred'.pc = "done") =>
       /\ pred'.resp.mode \in {"trend", "fallback-simulated"}
       /\ pred'.resp.mode = "fallback-simulated" <=>
            /\ pred'.warned \/ ~Persisted(pred.qcity)
            /\ cities[pred.qcity].history = <<>>]_vars

\* the store query failed and the prediction was still a trend, from the buffer
C16_Witness ==
  /\ pred.pc = "done" /\ pred.warned
  /\ pred.resp.mode = "trend"
  /\ ~Persisted(pred.qcity)

\* C17: every successful predict result, in either mode, has city, timestamp,
\* horizonMinutes, a top-level stepMinutes of 5, features, timeSeries and
\* meta.mode.
C17_PredictResultShape ==
  (pred.pc = "done" /\ pred.resp.status = 200) =>
    /\ {"city", "timestamp", "horizonMinutes", "stepMinutes", "features", "timeSeries",
        "meta"} \subseteq pred.resp.fields
    /\ pred.resp.stepMinutes = 5
    /\ "mode" \in pred.resp.metaFields

\* C18 as stated: in trend mode the series has floor(horizonMinutes/5) points
\* for every horizon in 1..120.
C18_FloorOfHorizonPoints ==
  (pred.pc = "done" /\ pred.resp.mode = "trend" /\ pred.horizon \in 1..120) =>
    Len(pred.resp.pointTimes) = pred.horizon \div 5

\* C18 amended: in trend mode the series has floor(horizonMinutes/5) points,
\* and one point when that is 0, and the i-th point is stamped i*5 minutes
\* after the time the prediction is made.
C18_SeriesLengthAndSpacing ==
  [][(pred.pc = "awaitDb" /\ pred'.pc = "done" /\ pred'.resp.mode = "trend") =>
       LET h == pred.horizon
           pts == pred'.resp.pointTimes
       IN /\ Len(pts) = IF h \div 5 = 0 THEN 1 ELSE h \div 5
          /\ \A i \in 1..Len(pts) : pts[i] = now + i * 300000]_vars

\* a trend prediction for a horizon below 5 minutes, and its single point
C18_Witness ==
  /\ pred.pc = "done" /\ pred.resp.mode = "trend"
  /\ pred.horizon = 1 /\ Len(pred.resp.pointTimes) = 1

\* C14: when from and to are given, the store-path history aggregates every
\* persisted record of the city whose timestamp lies in the range; none is
\* left out.
C14_RangeFullyAggregated ==
  [][(hist.pc = "awaitDb" /\ hist'.pc = "done" /\ hist'.resp.mode = "db"
        /\ hist.from.def /\ ~hist.from.nan /\ hist.to.def /\ ~hist.to.nan) =>
       hist'.resp.count = PersistedRows(hist)]_vars

\* the snapshots of a buffer whose time lies in [lo, hi], as a set of indices
Within(history, lo, hi) ==
  {i \in 1..Len(history) : lo <= history[i].timestamp /\ history[i].timestamp <= hi}
\* the features of segment id in those snapshots, as (snapshot, position) pairs
Occurrences(history, S, id) ==
  {<<i, j>> \in S \X (1..2) : j <= Len(history[i].features) /\ history[i].features[j].id = id}
RECURSIVE SumOf(_, _, _)
SumOf(history, occ, field) ==
  IF occ = {} THEN 0
  ELSE LET o == CHOOSE x \in occ : TRUE
       IN history[o[1]].features[o[2]][field] + SumOf(history, occ \ {o}, field)
\* avg is the quotient sum / n rounded to the nearest unit
NearestTo(avg, sum, n) == 2 * (avg * n - sum) <= n /\ 2 * (sum - avg * n) <= n

\* the range a getHistory call asks for
CallLo == IF call.args.fromISO.def THEN call.args.fromISO.ms ELSE 0
CallHi == IF call.args.toISO.def THEN call.args.toISO.ms ELSE call.args.nowMs

\* C13 as stated: count is the number of buffered snapshots in [from, to],
\* each segment's samples the number of those holding it, and each average
\* equals the arithmetic mean of the segment's values.
C13_AveragesAreExactMeans ==
  (call.fn = "getHistory" /\ call.done) =>
    LET h == call.args.history
        S == Within(h, CallLo, CallHi)
    IN /\ call.ret.count = Cardinality(S)
       /\ \A id \in DOMAIN call.ret.segments :
            LET occ == Occurrences(h, S, id)
                seg == call.ret.segments[id]
            IN /\ seg.samples = Cardinality(occ)
               /\ seg.avgSpeedKph * seg.samples = SumOf(h, occ, "speedKph")
               /\ seg.avgDensityVpkm * seg.samples = SumOf(h, occ, "densityVpkm")
               /\ seg.avgCongestion * seg.samples = SumOf(h, occ, "congestion")

\* C13 amended: count is the number of buffered snapshots with
\* from <= timestamp <= to, the segments are the ids appearing in them, each
\* with samples the number of those snapshots holding it, and each average is
\* the arithmetic mean rounded to the nearest hundredth (congestion:
\* thousandth).
C13_AveragesAreRoundedMeans ==
  (call.fn = "getHistory" /\ call.done) =>
    LET h == call.args.history
        S == Within(h, CallLo, CallHi)
    IN /\ call.ret.count = Cardinality(S)
       /\ DOMAIN call.ret.segments =
            {h[i].features[j].id : <<i, j>> \in {p \in S \X (1..2) : p[2] <= Len(h[p[1]].features)}}
       /\ \A id \in DOMAIN call.ret.segments :
            LET occ == Occurrences(h, S, id)
                seg == call.ret.segments[id]
            IN /\ seg.samples = Cardinality(occ)
               /\ NearestTo(seg.avgSpeedKph, SumOf(h, occ, "speedKph"), seg.samples)
               /\ NearestTo(seg.avgDensityVpkm, SumOf(h, occ, "densityVpkm"), seg.samples)
               /\ NearestTo(seg.avgCongestion, SumOf(h, occ, "congestion"), seg.samples)

\* three snapshots in range, one segment in all of them and one in two, with
\* a speed mean that is no whole number of hundredths
C13_Witness ==
  /\ call.fn = "getHistory" /\ call.done
  /\ call.ret.count = 3
  /\ DOMAIN call.ret.segments = {"seg_1", "seg_2"}
  /\ call.ret.segments["seg_1"].samples = 3
  /\ call.ret.segments["seg_2"].samples = 2
  /\ call.ret.segments["seg_1"].avgSpeedKph * 3
       # SumOf(call.args.history, Occurrences(call.args.history, {1, 2, 3}, "seg_1"), "speedKph")

\* C19: when a segment has exactly one historical sample, every projected
\* point has that sample's speed and density.
C19_SingleSampleFlat ==
  (call.fn = "predictTrendBased" /\ call.done /\ Len(call.ret.samples) = 1) =>
    \A i \in 1..Len(call.ret.points) :
      /\ call.ret.points[i].speedKph = call.ret.samples[1].speedKph
      /\ call.ret.points[i].densityVpkm = call.ret.samples[1].densityVpkm

\* the rows of a trend call and what the call returned
Rows == call.args.rows
Points == call.ret.points
\* the change of speed from a row to the next, and the rows' distance in ticks
RowChange == Rows[2].speedKph - Rows[1].speedKph
RowGap == (Rows[2].t - Rows[1].t) \div 10000
\* the speed samples change linearly with time
LinearRows ==
  /\ Len(Rows) >= 2
  /\ RowChange # 0
  /\ \A i \in 1..Len(Rows) - 1 :
       /\ Rows[i + 1].speedKph - Rows[i].speedKph = RowChange
       /\ Rows[i + 1].t - Rows[i].t = Rows[2].t - Rows[1].t
\* the line through the samples is at least 5 km/h at step i: its value there
\* is the last speed plus RowChange / RowGap per tick since the last sample
LineAboveFloor(i) ==
  LET last == Rows[Len(Rows)]
      since == (call.args.nowMs - last.t) \div 10000 + 30 * i
  IN last.speedKph * RowGap + RowChange * since >= 500 * RowGap
\* the line changes by more than 0.01 km/h per 5-minute step (30 ticks)
LineMovesPerStep == 30 * Abs(RowChange) > RowGap

\* C20 as stated: with linearly changing speed samples the projected speeds
\* are strictly monotone from each step to the next, in the direction of the
\* slope.
C20_TrendStrictlyMonotone ==
  (call.fn = "predictTrendBased" /\ call.done /\ LinearRows) =>
    \A i \in 1..Len(Points) - 1 :
      /\ RowChange > 0 => Points[i + 1].speedKph > Points[i].speedKph
      /\ RowChange < 0 => Points[i + 1].speedKph < Points[i].speedKph

\* C20 amended: with linearly changing speed samples the projected speeds
\* never move against the slope, and they are strictly monotone from a step
\* to the next wherever the fitted line changes by more than 0.01 km/h per
\* step and is at least 5 km/h at both steps.
C20_TrendMonotone ==
  (call.fn = "predictTrendBased" /\ call.done /\ LinearRows) =>
    \A i \in 1..Len(Points) - 1 :
      /\ RowChange > 0 =>
           /\ Points[i + 1].speedKph >= Points[i].speedKph
           /\ (LineMovesPerStep /\ LineAboveFloor(i)) =>
                Points[i + 1].speedKph > Points[i].speedKph
      /\ RowChange < 0 =>
           /\ Points[i + 1].speedKph <= Points[i].speedKph
           /\ (LineMovesPerStep /\ LineAboveFloor(i + 1)) =>
                Points[i + 1].speedKph < Points[i].speedKph

\* four rising speed samples one tick apart and horizon 15: three points, each
\* above the one before
C20_Witness ==
  /\ call.fn = "predictTrendBased" /\ call.done /\ LinearRows
  /\ Len(Rows) = 4 /\ RowChange > 0 /\ call.args.horizonMinutes = 15
  /\ Len(Points) = 3
  /\ Points[1].speedKph < Points[2].speedKph /\ Points[2].speedKph < Points[3].speedKph
  /\ Points[2].timestamp - Points[1].timestamp = 300000

(***************************************************************************)
(* predictTrendBased, the sample collection: _collectRecentFromDb on the   *)
(* records of a city and _collectRecentFromMemory on its buffer. A         *)
(* snapshot is kept as [timestamp, source, speedKph, densityVpkm]; its     *)
(* features are one per segment when simulated (the speed of segment i is  *)
(* speedKph + i hundredths) and the provider's single reading otherwise.   *)
(***************************************************************************)
RECENT_N == 10
\* the ids generateSegmentsForCity gives: seg_0 .. seg_119, in order
SegmentIdSeq == [i \in 1..SEGMENT_COUNT |-> "seg_" \o ToString(i - 1)]
SegmentIds == {SegmentIdSeq[i] : i \in 1..SEGMENT_COUNT}
SegmentIndex == [id \in SegmentIds |-> CHOOSE i \in 1..SEGMENT_COUNT : SegmentIdSeq[i] = id]

\* buildSegmentId(city, frc, speed): `tt_${city}_${frcPart}_${Math.round(speed)}`
\* frc is [def, str], speed is [nan, v in hundredths]
buildSegmentId(city, frc, speed) ==
  LET frcPart == IF frc.def THEN frc.str ELSE "NA"
      sPart == IF ~speed.nan THEN ToString((speed.v + 50) \div 100) ELSE "NA"
  IN "tt_" \o city \o "_" \o frcPart \o "_" \o sPart

\* the id of the k-th feature of a snapshot, and the speed of feature `id`
featureId(s, k) ==
  IF s.source = "tomtom"
  THEN buildSegmentId(DEFAULT_CITY, [def |-> TRUE, str |-> "FRC3"],
                      [nan |-> FALSE, v |-> s.speedKph])
  ELSE SegmentIdSeq[k]
featureSpeed(s, id) ==
  IF s.source = "tomtom" THEN s.speedKph ELSE s.speedKph + SegmentIndex[id]

\* arr.sort((a, b) => a.t - b.t): stable, ascending
insertByT(sorted, x) ==
  LET k == Cardinality({i \in 1..Len(sorted) : sorted[i].t <= x.t})
  IN SubSeq(sorted, 1, k) \o <<x>> \o SubSeq(sorted, k + 1, Len(sorted))
RECURSIVE sortByT(_)
sortByT(arr) ==
  IF arr = <<>> THEN <<>>
  ELSE insertByT(sortByT(SubSeq(arr, 1, Len(arr) - 1)), arr[Len(arr)])

\* .sort({ timestamp: -1 }): newest first
RECURSIVE sortNewestFirst(_)
sortNewestFirst(snaps) ==
  IF snaps = <<>> THEN <<>>
  ELSE LET rest == sortNewestFirst(SubSeq(snaps, 1, Len(snaps) - 1))
           x == snaps[Len(snaps)]
           k == Cardinality({i \in 1..Len(rest) : rest[i].timestamp > x.timestamp})
       IN SubSeq(rest, 1, k) \o <<x>> \o SubSeq(rest, k + 1, Len(rest))

\* TrafficRecord.find({ city }).sort({ timestamp: -1 }).limit(limit) over the
\* persisted snapshots of the city: per snapshot, the features lo..hi whose
\* records are among the newest `limit`. Records of one timestamp come in
\* insertion order or in the reverse (the store does not fix it).
findRecent(stored, limit, order) ==
  LET desc == sortNewestFirst(stored)
      before(k) == SeqSum([j \in 1..(k - 1) |-> FeatureCount(desc[j].source)])
      shown(k) == Min(FeatureCount(desc[k].source), Max(0, limit - before(k)))
      all == [k \in 1..Len(desc) |->
                [snap |-> desc[k],
                 lo |-> IF order = "insertion" THEN 1
                        ELSE FeatureCount(desc[k].source) - shown(k) + 1,
                 hi |-> IF order = "insertion" THEN shown(k)
                        ELSE FeatureCount(desc[k].source)]]
  IN SelectSeq(all, LAMBDA g : g.lo <= g.hi)

\* whether the records lo..hi of a snapshot hold one of segment `id`
hasRecord(g, id) ==
  IF g.snap.source = "tomtom" THEN id = featureId(g.snap, 1)
  ELSE id \in SegmentIds /\ SegmentIndex[id] \in g.lo..g.hi

\* if (arr.length < n) arr.push(...): the first n of the rows walked
takeOldest(arr, n) == SubSeq(arr, Max(1, Len(arr) - n + 1), Len(arr))
takeFirst(arr, n) == SubSeq(arr, 1, Min(n, Len(arr)))

\* _collectRecentFromDb(city, n) on the rows found
collectRecentFromDb(docs, n) ==
  LET ids == UNION {{featureId(docs[k].snap, i) : i \in docs[k].lo..docs[k].hi} :
                      k \in 1..Len(docs)}
      rows(id) == SelectSeq(docs, LAMBDA g : hasRecord(g, id))
      arr(id) == takeFirst([k \in 1..Len(rows(id)) |->
                              [t |-> rows(id)[k].snap.timestamp,
                               speedKph |-> featureSpeed(rows(id)[k].snap, id)]], n)
  IN [id \in ids |-> samplesFromDb(sortByT(arr(id)))]

\* whether a buffered snapshot has a feature of segment `id`
hasFeature(s, id) ==
  IF s.source = "tomtom" THEN id = featureId(s, 1) ELSE id \in SegmentIds

\* _collectRecentFromMemory(ctx, n): walks the buffer from the latest snapshot
\* backwards and stops once every segment of ctx.segments has n samples
collectRecentFromMemory(history, n) ==
  LET len == Len(history)
      seen(id, i) == Cardinality({j \in i..len : hasFeature(history[j], id)})
      allN(i) == \A k \in 1..SEGMENT_COUNT : seen(SegmentIdSeq[k], i) >= n
      stops == {i \in 1..len : allN(i)}
      first == IF stops = {} THEN 1 ELSE SetMax(stops)
      walked == [k \in 1..(len - first + 1) |-> history[len + 1 - k]]
      ids == UNION {IF walked[k].source = "tomtom" THEN {featureId(walked[k], 1)}
                    ELSE SegmentIds : k \in 1..Len(walked)}
      rows(id) == SelectSeq(walked, LAMBDA s : hasFeature(s, id))
      arr(id) == takeFirst([k \in 1..Len(rows(id)) |->
                              [t |-> rows(id)[k].timestamp,
                               speedKph |-> featureSpeed(rows(id)[k], id),
                               densityVpkm |-> rows(id)[k].densityVpkm]], n)
  IN [id \in ids |-> samplesFromMemory(sortByT(arr(id)))]

MaxRun == 11
\* the snapshot sequences tried, oldest first and one tick apart: a simulated
\* snapshots, then b provider snapshots (of one id, or of two in turn), then
\* c simulated ones
Timeline(a, b, c, turn) ==
  [j \in 1..(a + b + c) |->
     [timestamp |-> StartMs + j * TickIntervalMs,
      source |-> IF j > a /\ j <= a + b THEN "tomtom" ELSE "simulated",
      speedKph |-> IF j > a /\ j <= a + b
                   THEN (IF turn /\ j % 2 = 1 THEN 4540 ELSE 2000)
                   ELSE 3000 + 10 * j,
      densityVpkm |-> IF j > a /\ j <= a + b
                      THEN inferDensity(IF turn /\ j % 2 = 1 THEN 4540 ELSE 2000)
                      ELSE 1500]]
\* what the store can hold (it outlives the process)
StoredTimelines ==
  {Timeline(a, b, c, turn) : a \in {0, 1, MaxRun - 2}, b \in {0, 1, MaxRun},
                             c \in {0, 1, MaxRun - 2}, turn \in BOOLEAN}
\* what the buffer can hold: ticks append in simulation mode only; in
\* real-data mode at most the first snapshot is simulated
BufferTimelines ==
  {Timeline(a, 0, 0, FALSE) : a \in {0, 1, MaxRun - 2, MaxRun}}
    \cup {Timeline(a, b, 0, turn) : a \in {0, 1}, b \in {1, MaxRun}, turn \in BOOLEAN}

CollectCalls ==
  {[fn |-> "collectRecent", done |-> FALSE,
    args |-> [stored |-> s, history |-> h, dbFails |-> f]] :
     s \in StoredTimelines, h \in BufferTimelines, f \in BOOLEAN}

\* predictTrendBased, lines 547-559: the store first, the buffer when the
\* store fails or yields nothing
CollectReturns(order) ==
  /\ call.fn = "collectRecent" /\ ~call.done
  /\ LET a == call.args
         fromDb == IF a.dbFails THEN <<>>
                   ELSE collectRecentFromDb(findRecent(a.stored, PREDICT_LIMIT, order), RECENT_N)
         historyById == IF DOMAIN fromDb = {}
                        THEN collectRecentFromMemory(a.history, RECENT_N)
                        ELSE fromDb
     IN call' = [fn |-> call.fn, args |-> a, done |-> TRUE,
                 ret |-> [historyById |-> historyById]]
  /\ UNCHANGED <<tomtomKey, now, ticks, schedulerOn, cities, pending, db, nextWid, log, live,
                 hist, pred>>

InitCollectCall ==
  /\ tomtomKey = FALSE
  /\ InitStore
  /\ call \in CollectCalls

NextCollectCall == \E order \in {"insertion", "reverse"} : CollectReturns(order)

SpecCollectCall == InitCollectCall /\ [][NextCollectCall]_vars

\* the timestamps of the samples segment `id` has in a snapshot sequence
SampleTimes(source, id) ==
  {source[j].timestamp : j \in {k \in 1..Len(source) : hasFeature(source[k], id)}}
\* the sequence the regression is fed from: the store when it answers with
\* at least one record, the buffer otherwise
ChosenSource ==
  IF ~call.args.dbFails /\ call.args.stored # <<>> THEN call.args.stored
  ELSE call.args.history

\* C21: for every segment, the series fed to the regression has at most 10
\* samples, in ascending order of timestamp, and they are that segment's
\* most recent samples in the chosen source (the persisted store if it yields
\* any sample, otherwise the in-memory buffer).
C21_RecentSamplesOfChosenSource ==
  call.fn = "collectRecent" /\ call.done =>
    \A id \in DOMAIN call.ret.historyById :
      LET s == call.ret.historyById[id]
          times == {s[i].t : i \in 1..Len(s)}
      IN /\ Len(s) >= 1 /\ Len(s) <= 10
         /\ \A i \in 1..(Len(s) - 1) : s[i].t < s[i + 1].t
         /\ times \subseteq SampleTimes(ChosenSource, id)
         /\ \A t \in SampleTimes(ChosenSource, id) \ times : t < s[1].t
         /\ \A i \in 1..Len(s) :
              \E j \in 1..Len(ChosenSource) :
                /\ ChosenSource[j].timestamp = s[i].t
                /\ s[i].speedKph = featureSpeed(ChosenSource[j], id)

\* a segment with more than 10 records in the store gets its 10 newest, while
\* the buffer holds other samples
C21_Witness ==
  /\ call.fn = "collectRecent" /\ call.done
  /\ ~call.args.dbFails
  /\ call.args.history # <<>>
  /\ \E id \in DOMAIN call.ret.historyById :
       /\ Len(call.ret.historyById[id]) = 10
       /\ Cardinality(SampleTimes(call.args.stored, id)) > 10

(***************************************************************************)
(* generateSegmentsForCity and mulberry32. A 32-bit word is kept as its    *)
(* two 16-bit halves [hi, lo]; the closure variable a of mulberry32 is     *)
(* kept modulo 2^32, which is all the bit operations read of it.           *)
(***************************************************************************)
Half == 65536
Word(n) == [hi |-> n \div Half, lo |-> n % Half]

RECURSIVE BitXor(_, _)
BitXor(a, b) ==
  IF a = 0 THEN b ELSE IF b = 0 THEN a
  ELSE ((a + b) % 2) + 2 * BitXor(a \div 2, b \div 2)
RECURSIVE BitOr(_, _)
BitOr(a, b) ==
  IF a = 0 THEN b ELSE IF b = 0 THEN a
  ELSE (IF a % 2 = 1 \/ b % 2 = 1 THEN 1 ELSE 0) + 2 * BitOr(a \div 2, b \div 2)

\* x ^ y, x | m (m below 2^16), x >>> k (k below 16), x + y, on 32-bit words
xor32(x, y) == [hi |-> BitXor(x.hi, y.hi), lo |-> BitXor(x.lo, y.lo)]
or32(x, m) == [hi |-> x.hi, lo |-> BitOr(x.lo, m)]
shr32(x, k) ==
  [hi |-> x.hi \div (2 ^ k), lo |-> (x.lo \div (2 ^ k)) + (x.hi % (2 ^ k)) * (2 ^ (16 - k))]
add32(x, y) ==
  [hi |-> (x.hi + y.hi + ((x.lo + y.lo) \div Half)) % Half, lo |-> (x.lo + y.lo) % Half]

\* Math.imul(x, y): the low 32 bits of the product, byte by byte
imul(x, y) ==
  LET x0 == x.lo % 256  x1 == x.lo \div 256  x2 == x.hi % 256  x3 == x.hi \div 256
      y0 == y.lo % 256  y1 == y.lo \div 256  y2 == y.hi % 256  y3 == y.hi \div 256
      p0 == x0 * y0
      p1 == x0 * y1 + x1 * y0 + (p0 \div 256)
      p2 == x0 * y2 + x1 * y1 + x2 * y0 + (p1 \div 256)
      p3 == x0 * y3 + x1 * y2 + x2 * y1 + x3 * y0 + (p2 \div 256)
  IN [hi |-> (p2 % 256) + 256 * (p3 % 256), lo |-> (p0 % 256) + 256 * (p1 % 256)]

\* 0x6D2B79F5
MULBERRY_STEP == [hi |-> 27947, lo |-> 31221]

\* a generator whose variable is shared by all calls: it goes on from where
\* the calls made so far left it (each makes 720 draws)
mulberry32Shared(seed) ==
  add32(Word(seed), imul(Word(720 * (call.earlier + Len(call.ret))), MULBERRY_STEP))
\* mulberry32(a): the generator's state after seeding, and one call rng() of
\* the returned function: the state it leaves and the 32-bit numerator of
\* its result (the result is value / 4294967296)
mulberry32(seed) == Word(seed)
rng(a) ==
  LET a1 == add32(a, MULBERRY_STEP)
      t1 == imul(xor32(a1, shr32(a1, 15)), or32(a1, 1))
      t2 == xor32(t1, add32(t1, imul(xor32(t1, shr32(t1, 7)), or32(t1, 61))))
  IN [a |-> a1, value |-> xor32(t2, shr32(t2, 14))]

\* CITY_BBOX, in hundredths of a degree
CITY_BBOX ==
  [Bangalore |-> [minLat |-> 1285, maxLat |-> 1312, minLng |-> 7745, maxLng |-> 7775],
   Mumbai |-> [minLat |-> 1888, maxLat |-> 1930, minLng |-> 7275, maxLng |-> 7299],
   Delhi |-> [minLat |-> 2840, maxLat |-> 2888, minLng |-> 7690, maxLng |-> 7740]]

\* lerp(a, b, t) = a + (b - a) * t and base + (t - 0.5) * 0.01, kept by their
\* operands (t is the numerator of a draw)
lerp(a, b, t) == [a |-> a, b |-> b, t |-> t]
offset(base, t) == [base |-> base, t |-> t]
\* lo + Math.floor(rng() * 40) for the draw value / 2^32
scaled(lo, v) == lo + ((v.hi * 40 + ((v.lo * 40) \div Half)) \div Half)

\* the k-th call of the function mulberry32(seed) returned: it finds the
\* closure variable at seed + (k - 1) * 0x6D2B79F5
draw(seed, k) == rng(add32(mulberry32(seed), imul(Word(k - 1), MULBERRY_STEP))).value

\* six draws per segment, in the order of the loop body
generateSegmentsForCity(city, seed) ==
  LET bbox == IF city \in DOMAIN CITY_BBOX THEN CITY_BBOX[city] ELSE CITY_BBOX[DEFAULT_CITY]
  IN [n \in 1..SEGMENT_COUNT |->
        LET i == n - 1
            lat1 == lerp(bbox.minLat, bbox.maxLat, draw(seed, 6 * i + 1))
            lng1 == lerp(bbox.minLng, bbox.maxLng, draw(seed, 6 * i + 2))
            lat2 == offset(lat1, draw(seed, 6 * i + 3))
            lng2 == offset(lng1, draw(seed, 6 * i + 4))
        IN [id |-> "seg_" \o ToString(i),
            coordinates |-> <<<<lng1, lat1>>, <<lng2, lat2>>>>,
            baseSpeedKph |-> scaled(30, draw(seed, 6 * i + 5)),
            baseDensity |-> scaled(10, draw(seed, 6 * i + 6))]]

(***************************************************************************)
(* The readings the store builds: _buildSimulatedSnapshot (scheduler tick  *)
(* and getLiveSnapshot), fetchRealTimeCity, predictShortTerm and the       *)
(* points of predictTrendBased. A feature is [id, speedKph, densityVpkm,   *)
(* congestion] (coordinates are left out); speed and density in            *)
(* hundredths, congestion in thousandths, pattern and noise in hundredths. *)
(***************************************************************************)
\* null where a number is expected (no speed tried is negative)
Null == 0 - 1
NaN == [nan |-> TRUE, v |-> 0]
Finite(v) == [nan |-> FALSE, v |-> v]

clamp01(v) == Max(0, Min(1000, v))

\* the segments of a city created at the start of the process
StartSegments == [c \in Cities |-> generateSegmentsForCity(c, seedAt(StartMs, c))]
segmentsAtStart(city) == StartSegments[city]

\* one feature of _buildSimulatedSnapshot, lines 271-288
simulatedFeature(seg, pattern, noise, tie) ==
  LET \* density = Math.max(5, seg.baseDensity * (0.6 + pattern + noise))
      density == Max(FLOOR, seg.baseDensity * (60 + pattern + noise))
      \* speed = Math.max(5, seg.baseSpeedKph * (1.25 - 0.65 * (density / (seg.baseDensity + 30))))
      q == 100 * (seg.baseDensity + 30)
      p == seg.baseSpeedKph * (12500 * (seg.baseDensity + 30) - 65 * density)
      speed == IF p < FLOOR * q THEN [p |-> FLOOR, q |-> 1] ELSE [p |-> p, q |-> q]
      \* rawCong = (density / 80 + (1 - speed / 80)) / 2
      rawCong == [p |-> density * speed.q - speed.p + 8000 * speed.q, q |-> 16 * speed.q]
  IN [id |-> seg.id,
      speedKph |-> toFixed(speed.p, speed.q, tie),
      densityVpkm |-> density,
      congestion |-> clamp01(toFixed(rawCong.p, rawCong.q, tie))]

\* Math.random() per segment: every segment low, every segment high, or in turn
NoiseRules == {"low", "high", "turn"}
noiseOf(rule, i) ==
  IF rule = "low" \/ (rule = "turn" /\ i % 2 = 1) THEN 0 - 15 ELSE 14
\* Math.min(1, peak1 + peak2 + 0.2)
Patterns == {20, 60, 100}

\* _buildSimulatedSnapshot(city) at time t, segments being ctx.segments
simulatedSnapshot(city, segments, t, pattern, rule, tie) ==
  [city |-> city, timestamp |-> t, source |-> "simulated",
   features |-> [i \in 1..Len(segments) |->
                   simulatedFeature(segments[i], pattern, noiseOf(rule, i), tie)]]

\* inferCongestionLevel(relativeSpeed, currentSpeed) followed by toFixed(3);
\* relativeSpeed is (currentSpeed / freeFlow) * 100 or undefined
inferCongestionLevel(currentSpeed, freeFlow, tie) ==
  LET hasRelative == ~currentSpeed.nan /\ ~freeFlow.nan /\ freeFlow.v > 0
      cs == currentSpeed.v
      ff == freeFlow.v
      \* Math.max(0, Math.min(1, (100 - relativeSpeed) / 100)), as p / ff
      p == IF cs >= ff THEN 0 ELSE IF cs <= 0 THEN 1000 * ff ELSE 1000 * (ff - cs)
      slow == IF cs < 2000 THEN Min(1000 * ff, p + 150 * ff) ELSE p
  IN IF hasRelative THEN toFixed(slow, ff, tie)
     ELSE IF currentSpeed.nan THEN 900
     ELSE IF cs >= 7000 THEN 50
     ELSE IF cs >= 5000 THEN 200
     ELSE IF cs >= 3000 THEN 450
     ELSE IF cs >= 1500 THEN 700
     ELSE 900

\* the provider's answers tried: flowSegmentData.currentSpeed, freeFlowSpeed, frc
ProviderSpeeds == {NaN, Finite(0), Finite(300), Finite(1600), Finite(4000), Finite(1000000)}
ProviderFreeFlows == {NaN, Finite(0), Finite(5000)}
ProviderFrcs == {[def |-> TRUE, str |-> "FRC3"], [def |-> FALSE, str |-> ""]}
ProviderAnswers ==
  {[currentSpeed |-> cs, freeFlowSpeed |-> ff, frc |-> frc] :
     cs \in ProviderSpeeds, ff \in ProviderFreeFlows, frc \in ProviderFrcs}

\* fetchRealTimeCity(city), lines 150-181, on a well-formed answer
tomtomSnapshot(city, t, seg, tie) ==
  LET currentSpeed == seg.currentSpeed
      densityVpkm == IF ~currentSpeed.nan
                     THEN toFixed(800000, Max(FLOOR, currentSpeed.v), tie)
                     ELSE 2000
      feature == [id |-> buildSegmentId(city, seg.frc, currentSpeed),
                  speedKph |-> IF ~currentSpeed.nan THEN currentSpeed.v ELSE Null,
                  densityVpkm |-> densityVpkm,
                  congestion |-> inferCongestionLevel(currentSpeed, seg.freeFlowSpeed, tie)]
  IN [city |-> city, timestamp |-> t, source |-> "tomtom", features |-> <<feature>>]

\* one feature of predictShortTerm on a cold start (features from the segments)
RandomPairs == {<<0 - 100, 99>>, <<0, 0>>, <<99, 0 - 100>>}
shortTermFeature(seg, pattern, rnd, tie) ==
  LET \* in thousandths: f.densityVpkm * (0.9 + 0.3 * pattern) + (Math.random() - 0.5) * 2
      predictedDensity == Max(10 * FLOOR, seg.baseDensity * (900 + 3 * pattern) + 10 * rnd[1])
      predictedSpeed == Max(10 * FLOOR, seg.baseSpeedKph * (1050 - 3 * pattern) + 10 * rnd[2])
  IN [id |-> seg.id,
      speedKph |-> toFixed(predictedSpeed, 10, tie),
      densityVpkm |-> toFixed(predictedDensity, 10, tie),
      congestion |-> clamp01(toFixed(predictedDensity - predictedSpeed + 80000, 160, tie))]

\* docs = snapshot.features.map(f => ({ segmentId, location, avgSpeed,
\* congestionLevel, timestamp, city })); the provider's batch has
\* avgSpeed: f.speedKph ?? 0
docsOf(snapshot) ==
  [i \in 1..Len(snapshot.features) |->
     [segmentId |-> snapshot.features[i].id,
      avgSpeed |-> IF snapshot.source = "tomtom" /\ snapshot.features[i].speedKph = Null
                   THEN 0 ELSE snapshot.features[i].speedKph,
      congestionLevel |-> snapshot.features[i].congestion,
      timestamp |-> snapshot.timestamp,
      city |-> snapshot.city]]

\* the fire-and-forget block after a push: one insertMany call with the docs
persistNothing(snapshot) == <<>>
persistSnapshot(snapshot) == <<[docs |-> docsOf(snapshot), state |-> "submitted"]>>

\* what a call leaves: the city's history and lastSnapshot (as a sequence of
\* at most one), the snapshot /live returns, the features and points of
\* predict, the insertMany calls made
Readings(history, last, returned, features, points, writes) ==
  [history |-> history, last |-> last, returned |-> returned,
   features |-> features, points |-> points, writes |-> writes]

\* the snapshot a city holds from an earlier tick
EarlierSnapshot(city) == simulatedSnapshot(city, segmentsAtStart(city), StartMs, 60, "low", 0)

\* a call finds the city's context as it is: segments, and for /live the history
TickCalls ==
  {[fn |-> "tick", done |-> FALSE,
    args |-> [city |-> c, segments |-> segmentsAtStart(c), pattern |-> p, noise |-> r]] :
     c \in Cities, p \in Patterns, r \in NoiseRules}
\* fetch is "none" (no key), "fails", or the provider's answer
LiveCalls ==
  {[fn |-> "getLiveSnapshot", done |-> FALSE,
    args |-> [city |-> c, segments |-> segmentsAtStart(c), history |-> <<>>,
              key |-> FALSE, fetch |-> "none", hasLast |-> FALSE,
              pattern |-> p, noise |-> r]] :
     c \in Cities, p \in Patterns, r \in NoiseRules}
  \cup
  {[fn |-> "getLiveSnapshot", done |-> FALSE,
    args |-> [city |-> c, segments |-> segmentsAtStart(c),
              history |-> <<EarlierSnapshot(c)>>,
              key |-> k, fetch |-> IF k THEN "fails" ELSE "none",
              hasLast |-> TRUE, pattern |-> 60, noise |-> "low"]] :
     c \in Cities, k \in BOOLEAN}
  \cup
  {[fn |-> "getLiveSnapshot", done |-> FALSE,
    args |-> [city |-> c, segments |-> segmentsAtStart(c), history |-> <<>>,
              key |-> TRUE, fetch |-> "fails", hasLast |-> FALSE,
              pattern |-> p, noise |-> "turn"]] :
     c \in Cities, p \in Patterns}
  \cup
  {[fn |-> "getLiveSnapshot", done |-> FALSE,
    args |-> [city |-> c, segments |-> segmentsAtStart(c),
              history |-> IF h THEN <<EarlierSnapshot(c)>> ELSE <<>>,
              key |-> TRUE, fetch |-> "answers", answer |-> a, hasLast |-> h,
              pattern |-> 60, noise |-> "low"]] :
     c \in Cities, a \in ProviderAnswers, h \in BOOLEAN}
ShortTermCalls ==
  {[fn |-> "predictShortTerm", done |-> FALSE,
    args |-> [city |-> c, segments |-> segmentsAtStart(c), pattern |-> p, random |-> r]] :
     c \in Cities, p \in Patterns, r \in RandomPairs}
\* values of the speed and density series: zero, the floor, usual, very large
SeriesValues == {Frac(0, 1), Frac(FLOOR, 1), Frac(4000, 1), Frac(100000000, 1)}
PointCalls ==
  {[fn |-> "pointOf", done |-> FALSE,
    args |-> [speedValue |-> s, densityValue |-> d]] :
     s \in SeriesValues, d \in SeriesValues}

\* the scheduler callback for one city, lines 223-227
TickReturns(tie) ==
  /\ call.fn = "tick" /\ ~call.done
  /\ LET a == call.args
     IN \E snapshot \in {simulatedSnapshot(a.city, a.segments, StartMs + TickIntervalMs,
                                            a.pattern, a.noise, tie)} :
          call' = [fn |-> call.fn, args |-> a, done |-> TRUE,
                   ret |-> Readings(<<snapshot>>, <<snapshot>>, <<>>, <<>>, <<>>,
                                    persistSnapshot(snapshot))]
  /\ UNCHANGED <<tomtomKey, now, ticks, schedulerOn, cities, pending, db, nextWid, log, live,
                 hist, pred>>

\* getLiveSnapshot(city), lines 307-351, with the answer of the provider
GetLiveSnapshotReturns(tie) ==
  /\ call.fn = "getLiveSnapshot" /\ ~call.done
  /\ LET a == call.args
         t == StartMs + TickIntervalMs
         history == a.history
     IN IF a.key /\ a.fetch = "answers"
        THEN \* fetchRealTimeCity submits the batch, getLiveSnapshot pushes
             \E tt \in {tomtomSnapshot(a.city, t, a.answer, tie)} :
               call' = [fn |-> call.fn, args |-> a, done |-> TRUE,
                        ret |-> Readings(Append(history, tt), <<tt>>, <<tt>>, <<>>, <<>>,
                                         persistSnapshot(tt))]
        ELSE IF ~a.hasLast
        THEN \E snap \in {simulatedSnapshot(a.city, a.segments, t, a.pattern, a.noise, tie)} :
               call' = [fn |-> call.fn, args |-> a, done |-> TRUE,
                        ret |-> Readings(Append(history, snap), <<snap>>, <<snap>>, <<>>, <<>>,
                                         persistSnapshot(snap))]
        ELSE call' = [fn |-> call.fn, args |-> a, done |-> TRUE,
                      ret |-> Readings(history, history, history, <<>>, <<>>, <<>>)]
  /\ UNCHANGED <<tomtomKey, now, ticks, schedulerOn, cities, pending, db, nextWid, log, live,
                 hist, pred>>

\* predictShortTerm(horizonMinutes, city) with an empty history
PredictShortTermReturns(tie) ==
  /\ call.fn = "predictShortTerm" /\ ~call.done
  /\ LET a == call.args
         segments == a.segments
     IN call' = [fn |-> call.fn, args |-> a, done |-> TRUE,
                 ret |-> Readings(<<>>, <<>>, <<>>,
                           [i \in 1..Len(segments) |->
                              shortTermFeature(segments[i], a.pattern, a.random, tie)],
                           <<>>, <<>>)]
  /\ UNCHANGED <<tomtomKey, now, ticks, schedulerOn, cities, pending, db, nextWid, log, live,
                 hist, pred>>

\* one step of the points loop of predictTrendBased; the final feature of a
\* segment is its last point
PointReturns ==
  /\ call.fn = "pointOf" /\ ~call.done
  /\ LET a == call.args
         point == pointOf(StartMs + STEP_MIN * MsPerMinute, a.speedValue, a.densityValue)
     IN call' = [fn |-> call.fn, args |-> a, done |-> TRUE,
                 ret |-> Readings(<<>>, <<>>, <<>>,
                           <<[id |-> "seg_0", speedKph |-> point.speedKph,
                              densityVpkm |-> point.densityVpkm,
                              congestion |-> point.congestion]>>,
                           <<point>>, <<>>)]
  /\ UNCHANGED <<tomtomKey, now, ticks, schedulerOn, cities, pending, db, nextWid, log, live,
                 hist, pred>>

\* the store answers an insertMany call: the success is logged, or the catch
\* logs the failure; nothing else happens
BatchAnswered(k, outcome) ==
  /\ call.fn \in {"tick", "getLiveSnapshot"} /\ call.done
  /\ k \in 1..Len(call.ret.writes)
  /\ call.ret.writes[k].state = "submitted"
  /\ call' = [call EXCEPT !.ret.writes[k].state = outcome]
  /\ UNCHANGED <<tomtomKey, now, ticks, schedulerOn, cities, pending, db, nextWid, log, live,
                 hist, pred>>

InitReadingCall ==
  /\ tomtomKey = FALSE
  /\ InitStore
  /\ call \in TickCalls \cup LiveCalls \cup ShortTermCalls \cup PointCalls

NextReadingCall ==
  \/ \E tie \in {0, 1} : TickReturns(tie)
  \/ \E tie \in {0, 1} : GetLiveSnapshotReturns(tie)
  \/ \E tie \in {0, 1} : PredictShortTermReturns(tie)
  \/ PointReturns
  \/ \E k \in {1}, outcome \in {"resolved", "rejected"} : BatchAnswered(k, outcome)

SpecReadingCall == InitReadingCall /\ [][NextReadingCall]_vars

IsReadingCall == call.fn \in {"tick", "getLiveSnapshot", "predictShortTerm", "pointOf"}
\* the features of the snapshots a call left in the history or as lastSnapshot
StoredFeatures ==
  UNION {{s.features[i] : i \in 1..Len(s.features)} :
           s \in {call.ret.history[k] : k \in 1..Len(call.ret.history)}
                   \cup {call.ret.last[k] : k \in 1..Len(call.ret.last)}}
ReturnedFeatures ==
  UNION {{s.features[i] : i \in 1..Len(s.features)} :
           s \in {call.ret.returned[k] : k \in 1..Len(call.ret.returned)}}
PredictedReadings ==
  {call.ret.features[i].congestion : i \in 1..Len(call.ret.features)}
    \cup {call.ret.points[i].congestion : i \in 1..Len(call.ret.points)}

\* C22: congestion lies in [0,1] for every feature of every snapshot stored in
\* a city's history and for every feature and time-series point returned by
\* predict, whatever the speed and density (zero and very large included).
C22_CongestionWithinUnit ==
  IsReadingCall /\ call.done =>
    /\ \A f \in StoredFeatures : f.congestion >= 0 /\ f.congestion <= 1000
    /\ \A c \in PredictedReadings : c >= 0 /\ c <= 1000

\* a projected point of zero speed and very large density has congestion 1
C22_Witness ==
  /\ call.fn = "pointOf" /\ call.done
  /\ call.args.speedValue = Frac(0, 1)
  /\ call.args.densityValue = Frac(100000000, 1)
  /\ call.ret.points[1].congestion = 1000
  /\ call.ret.features[1].congestion = 1000

\* C23: speedKph and densityVpkm are at least 5 for every feature of every
\* snapshot stored in a city's history or returned by /live, simulated or
\* from the external provider.
C23_ReadingsAtLeastFloor ==
  call.fn \in {"tick", "getLiveSnapshot"} /\ call.done =>
    \A f \in StoredFeatures \cup ReturnedFeatures :
      f.speedKph >= FLOOR /\ f.densityVpkm >= FLOOR

\* the snapshots a call left in the city's history or as its lastSnapshot
StoredSnapshots ==
  {call.ret.history[k] : k \in 1..Len(call.ret.history)}
    \cup {call.ret.last[k] : k \in 1..Len(call.ret.last)}

\* C24: every snapshot stored in a city's history or set as its lastSnapshot
\* carries exactly one reading per segment of that city: its feature ids are
\* exactly the ids of the city's 120 segments.
C24_OneReadingPerSegment ==
  call.fn \in {"tick", "getLiveSnapshot"} /\ call.done =>
    \A s \in StoredSnapshots :
      /\ Len(s.features) = 120
      /\ Len(segmentsAtStart(s.city)) = 120
      /\ \A i \in 1..Len(s.features) : s.features[i].id = segmentsAtStart(s.city)[i].id

(***************************************************************************)
(* City names                                                              *)
(***************************************************************************)
SupportedCities == {"Bangalore", "Mumbai", "Delhi"}

\* the snapshots a city's context holds: its history and its lastSnapshot
heldSnapshots(ctx) ==
  {ctx.history[i] : i \in 1..Len(ctx.history)}
    \cup (IF ctx.lastSnapshot = NoSnapshot THEN {} ELSE {ctx.lastSnapshot})

\* C25: normalizeCity returns Bangalore, Mumbai or Delhi for every input, an
\* unrecognised one becoming Bangalore; the store's city map always has exactly
\* those three keys and every snapshot it holds names one of them.
C25_CityNamesCanonical ==
  /\ \A raw \in RawCityInputs :
       /\ normalizeCity(raw) \in SupportedCities
       /\ Unsupported(raw) => normalizeCity(raw) = "Bangalore"
  /\ DOMAIN cities = SupportedCities
  /\ \A c \in DOMAIN cities : \A s \in heldSnapshots(cities[c]) : s.city \in SupportedCities

\* a /live request for Paris has been served and the store holds the snapshot
\* it produced, under Bangalore
C25_Witness ==
  \E r \in LiveSlots :
    /\ live[r].pc = "done" /\ Unsupported(live[r].raw)
    /\ normalizeCity(live[r].raw) = "Bangalore"
    /\ live[r].resp.status = 200
    /\ live[r].resp.snapshot \in heldSnapshots(cities["Bangalore"])
    /\ live[r].resp.snapshot.city = "Bangalore"

(***************************************************************************)
(* Segment sets                                                            *)
(***************************************************************************)
\* ctx.segments of a city as the constructor made it
segmentsAsConstructed(c) == [city |-> c, seed |-> seedAt(StartMs, c)]

\* C26: each city's segment set is created once, with 120 segments, and never
\* changes afterwards: after any ticks, /live, /history and /predict requests
\* every city still holds the segment set the constructor generated for it.
C26_SegmentsFixed ==
  \A c \in Cities :
    /\ c \in DOMAIN cities
    /\ cities[c].segments = segmentsAsConstructed(c)
    /\ DOMAIN segmentsAtStart(c) = 1..120
    /\ {segmentsAtStart(c)[n].id : n \in 1..120} = SegmentIds

\* a tick has run, a /live request has been answered and a prediction has
\* been computed, and each has left snapshots or a response behind
C26_Witness ==
  /\ ticks >= 1
  /\ live[1].pc = "sent"
  /\ pred.pc = "done" /\ pred.resp.status = 200
  /\ \E c \in Cities : Len(cities[c].history) >= 2
  /\ \A c \in Cities : cities[c].segments = segmentsAsConstructed(c)

(***************************************************************************)
(* generateSegmentsForCity called twice with the same arguments, with      *)
(* calls for other arguments before and between the two.                   *)
(***************************************************************************)
MaxEarlier == 2

\* the seeds _ensureCity passes lie in 0 .. 99999 + 9 * 9973
GenSeeds == {0, seedAt(StartMs, "Delhi"), seedAt(StartMs, "Bangalore"), 99999 + 9 * 9973}
\* a name without a bounding box gets the default city's
GenCities == Cities \cup {"Pune"}

GenerateCalls ==
  { [fn |-> "generateSegmentsForCity", args |-> [city |-> c, seed |-> s], ret |-> <<>>,
     earlier |-> 0, done |-> FALSE] : c \in GenCities, s \in GenSeeds }

\* one of the two calls returns its list
GenerateReturns ==
  /\ call.fn = "generateSegmentsForCity" /\ ~call.done
  /\ LET ret == Append(call.ret, generateSegmentsForCity(call.args.city, call.args.seed))
     IN call' = [call EXCEPT !.ret = ret, !.done = (Len(ret) = 2)]
  /\ UNCHANGED <<tomtomKey, now, ticks, schedulerOn, cities, pending, db, nextWid, log, live,
                 hist, pred>>

\* a call for another city or seed is made and its list is dropped
GenerateElsewhere ==
  /\ call.fn = "generateSegmentsForCity" /\ ~call.done
  /\ call.earlier < MaxEarlier
  /\ call' = [call EXCEPT !.earlier = @ + 1]
  /\ UNCHANGED <<tomtomKey, now, ticks, schedulerOn, cities, pending, db, nextWid, log, live,
                 hist, pred>>

InitGenerateCall ==
  /\ tomtomKey = FALSE
  /\ InitStore
  /\ call \in GenerateCalls

NextGenerateCall ==
  \/ GenerateReturns
  \/ GenerateElsewhere

SpecGenerateCall == InitGenerateCall /\ [][NextGenerateCall]_vars

C28_TickIdleInProviderMode ==
  [][(tomtomKey /\ ticks' = ticks + 1) =>
       /\ \A c \in Cities :
            /\ cities'[c].history = cities[c].history
            /\ cities'[c].lastSnapshot = cities[c].lastSnapshot
       /\ pending' = pending
       /\ nextWid' = nextWid]_vars

\* the key is set, a /live request has stored a provider snapshot and the tick
\* that fired afterwards left it the last one
C28_Witness ==
  /\ tomtomKey
  /\ ticks >= 1
  /\ \E c \in Cities :
       /\ Len(cities[c].history) = 1
       /\ cities[c].lastSnapshot.source = "tomtom"
       /\ cities[c].lastSnapshot.timestamp < now
  /\ \A c \in Cities : \A i \in 1..Len(cities[c].history) :
       cities[c].history[i].timestamp # now

(***************************************************************************)
(* GET /api/traffic/self-test (routes/selfTest.js; the handler of          *)
(* controllers/selfTest.js differs only in reporting mode 'simulated'      *)
(* whatever the key).                                                      *)
(***************************************************************************)
SelfTestTicks == 3

\* module.exports of the traffic service
serviceExports == {"store", "getDbHistory", "normalizeCity", "DEFAULT_CITY", "validateCity"}

\* traffic.getSchedulerMetrics ? traffic.getSchedulerMetrics() : { defaults }.
\* The service exports no getSchedulerMetrics and the scheduler keeps no
\* counter, so the only value the expression has is the default object.
schedulerMetrics(key) ==
  [mode |-> IF key THEN "tomtom" ELSE "simulated", tickCount |-> 0, cityLastTick |-> <<>>]

NoTimestamp == [def |-> FALSE, empty |-> FALSE, nan |-> FALSE, ms |-> 0]

selfTestResponse(key, t) ==
  LET metrics == schedulerMetrics(key)
  IN [status |-> 200,
      serverTimestamp |-> toISOString(t),
      mode |-> metrics.mode,
      tickCount |-> metrics.tickCount,
      cities |-> [c \in DOMAIN metrics.cityLastTick |->
                    [lastTickTimestamp |->
                       IF metrics.cityLastTick[c] # 0 THEN toISOString(metrics.cityLastTick[c])
                       ELSE NoTimestamp]]]

SelfTestCall == [fn |-> "selfTest", args |-> <<>>, ret |-> <<>>, done |-> FALSE]

\* the handler runs to its response in one go
SelfTestReturns ==
  /\ call.fn = "selfTest" /\ ~call.done
  /\ call' = [call EXCEPT !.ret = selfTestResponse(tomtomKey, now), !.done = TRUE]
  /\ UNCHANGED <<tomtomKey, now, ticks, schedulerOn, cities, pending, db, nextWid, log, live,
                 hist, pred>>

\* the response has been sent; the next request can come
SelfTestSent ==
  /\ call.fn = "selfTest" /\ call.done
  /\ call' = SelfTestCall
  /\ UNCHANGED <<tomtomKey, now, ticks, schedulerOn, cities, pending, db, nextWid, log, live,
                 hist, pred>>

InitSelfTest ==
  /\ tomtomKey \in BOOLEAN
  /\ InitStore
  /\ call = SelfTestCall

\* each tick's writes are answered before the next tick, 10 s later
NextSelfTest ==
  \/ ticks < SelfTestTicks /\ pending = {} /\ SchedulerTick
  \/ \E w \in pending : InsertManyResolves(w)
  \/ \E w \in pending : InsertManyRejects(w)
  \/ SelfTestReturns
  \/ SelfTestSent

SpecSelfTest == InitSelfTest /\ [][NextSelfTest]_vars

\* C29: the tickCount a self-test response carries is the number of scheduler
\* ticks executed since start, and its cities object has an entry for each of
\* the three cities holding the time of that city's last tick (in simulation
\* mode, once a tick has run: the time of the last tick).
C29_SelfTestReportsTicks ==
  (call.fn = "selfTest" /\ call.done) =>
    /\ call.ret.tickCount = ticks
    /\ DOMAIN call.ret.cities = {"Bangalore", "Mumbai", "Delhi"}
    /\ (~tomtomKey /\ ticks > 0) =>
         \A c \in DOMAIN call.ret.cities :
           call.ret.cities[c].lastTickTimestamp = toISOString(cities[c].lastSnapshot.timestamp)

(***************************************************************************)
(* /history with format=points: the controller's response shaping          *)
(* (toRechartsPoints), on the aggregate getHistory returns for a buffer.   *)
(* The aggregate read from the persisted store is shaped by the same       *)
(* function.                                                               *)
(***************************************************************************)
\* for (let i = 0; i <= 60; i++)
RECHARTS_POINTS == 61

\* overall.map(s => s.avgCongestion || 0).reduce((a, b) => a + b, 0)
RECURSIVE sumAvgCongestion(_, _)
sumAvgCongestion(segments, ids) ==
  IF ids = {} THEN 0
  ELSE LET id == CHOOSE x \in ids : TRUE
       IN segments[id].avgCongestion + sumAvgCongestion(segments, ids \ {id})

toRechartsPoints(aggregated, tie) ==
  LET fromMs == DateParse(aggregated.from)
      overall == aggregated.segments
      n == Cardinality(DOMAIN overall)
      avgCong == IF n # 0 THEN toFixed(sumAvgCongestion(overall, DOMAIN overall), n, tie) ELSE 0
  IN [k \in 1..RECHARTS_POINTS |->
        [timestamp |-> toISOString(fromMs + (k - 1) * MsPerMinute), congestion |-> avgCong]]

HistoryPointsCalls ==
  {[fn |-> "historyPoints", done |-> FALSE, args |-> c.args] : c \in HistoryCalls}

\* the in-memory branch of the controller with format = 'points'
HistoryPointsReturns(tie, tiePoints) ==
  /\ call.fn = "historyPoints" /\ ~call.done
  /\ LET a == call.args
         from == IF Truthy(a.fromISO) THEN DateParse(a.fromISO) ELSE 0
         to == IF Truthy(a.toISO) THEN DateParse(a.toISO) ELSE a.nowMs
         samples == historySamples(a.history, from, to)
         mem == [city |-> DEFAULT_CITY, from |-> toISOString(from), to |-> toISOString(to),
                 count |-> Len(samples), segments |-> aggregateSegments(samples, tie)]
     IN call' = [fn |-> call.fn, args |-> a, done |-> TRUE,
                 ret |-> [status |-> 200, city |-> mem.city, from |-> mem.from, to |-> mem.to,
                          count |-> mem.count, format |-> "points",
                          points |-> toRechartsPoints(mem, tiePoints)]]
  /\ UNCHANGED <<tomtomKey, now, ticks, schedulerOn, cities, pending, db, nextWid, log, live,
                 hist, pred>>

InitHistoryPointsCall ==
  /\ tomtomKey = FALSE
  /\ InitStore
  /\ call \in HistoryPointsCalls

NextHistoryPointsCall == \E tie \in {0, 1}, tiePoints \in {0, 1} : HistoryPointsReturns(tie, tiePoints)

SpecHistoryPointsCall == InitHistoryPointsCall /\ [][NextHistoryPointsCall]_vars

\* the ids of the segments the aggregate of the call holds
AggregatedIds ==
  LET fs == allFeatures(historySamples(call.args.history, CallLo, CallHi))
  IN {fs[k].id : k \in 1..Len(fs)}

\* C30: with format=points the response holds one point per aggregated
\* segment, and each point carries that segment's id, coordinates, speedKph,
\* densityVpkm, congestion and samples.
C30_PointPerSegment ==
  (call.fn = "historyPoints" /\ call.done) =>
    /\ call.ret.format = "points"
    /\ Len(call.ret.points) = Cardinality(AggregatedIds)
    /\ \A k \in 1..Len(call.ret.points) :
         DOMAIN call.ret.points[k] =
           {"id", "coordinates", "speedKph", "densityVpkm", "congestion", "samples"}
    /\ {call.ret.points[k].id : k \in 1..Len(call.ret.points)} = AggregatedIds

(***************************************************************************)
(* The time-of-day pattern of _buildSimulatedSnapshot. Math.exp is         *)
(* computed in ten-thousandths: exp(-(q + f)) = exp(-1)^q * exp(-f) with   *)
(* the series of exp(-f) for the fractional part, each step rounded down,  *)
(* which keeps the value within a few ten-thousandths of the double.       *)
(* exp(-0) is exactly 1, as in the code.                                   *)
(***************************************************************************)
EXP_ONE == 10000
\* exp(-1)
EXP_INV_E == 3679
SERIES_TERMS == 12
MINUTES_PER_DAY == 1440
\* 0.2, the base flow
PATTERN_BASE == 2000

RECURSIVE expInt(_)
expInt(q) == IF q = 0 THEN EXP_ONE ELSE (expInt(q - 1) * EXP_INV_E) \div EXP_ONE

\* term - term * f / k + term * f^2 / (k (k + 1)) - ...
RECURSIVE expSeries(_, _, _)
expSeries(f, k, term) ==
  IF term = 0 \/ k > SERIES_TERMS THEN 0
  ELSE term - expSeries(f, k + 1, (term * f) \div (EXP_ONE * k))

\* Math.exp(-(diff * diff) / (2 * width * width))
gaussianPeak(x, center, width) ==
  LET diff == x - center
      n == diff * diff
      d == 2 * width * width
  IN (expInt(n \div d) * expSeries(((n % d) * EXP_ONE) \div d, 1, EXP_ONE)) \div EXP_ONE

\* Math.min(1, peak1 + peak2 + 0.2) without the cap
patternUncapped(minuteOfDay) ==
  gaussianPeak(minuteOfDay, 9 * 60, 120) + gaussianPeak(minuteOfDay, 18 * 60, 120)
    + PATTERN_BASE
patternAt(minuteOfDay) ==
  Min(EXP_ONE, gaussianPeak(minuteOfDay, 9 * 60, 120) + gaussianPeak(minuteOfDay, 18 * 60, 120)
                 + PATTERN_BASE)

\* the pattern is computed for the minute of the day the clock shows
PatternReturns ==
  /\ call.fn = "pattern" /\ ~call.done
  /\ call' = [call EXCEPT !.done = TRUE, !.ret = patternAt(call.args.minuteOfDay)]
  /\ UNCHANGED <<tomtomKey, now, ticks, schedulerOn, cities, pending, db, nextWid, log, live,
                 hist, pred>>

InitPatternCall ==
  /\ tomtomKey = FALSE
  /\ InitStore
  /\ call \in {[fn |-> "pattern", done |-> FALSE, ret |-> 0, args |-> [minuteOfDay |-> m]] :
                 m \in 0..(MINUTES_PER_DAY - 1)}

NextPatternCall == PatternReturns

SpecPatternCall == InitPatternCall /\ [][NextPatternCall]_vars

\* C31: the intensity min(1, peak(540) + peak(1080) + 0.2) lies in [0.2, 1]
\* for every minute 0..1439, and no minute's value exceeds the value at
\* minute 540 or the value at minute 1080.
C31_PatternBounded ==
  (call.fn = "pattern" /\ call.done) =>
    /\ call.ret >= 2000 /\ call.ret <= 10000
    /\ call.ret <= patternAt(540)
    /\ call.ret <= patternAt(1080)

\* minute 540 has been computed and has the value 1, which minute 1080 has
\* too, while a night minute stays near the base flow
C31_Witness ==
  /\ call.fn = "pattern" /\ call.done
  /\ call.args.minuteOfDay = 540 /\ call.ret = 10000
  /\ patternAt(1080) = 10000
  /\ patternAt(0) < 2100

(***************************************************************************)
(* Order of a city's history                                               *)
(***************************************************************************)
\* C32: under every interleaving of scheduler ticks and concurrent /live
\* requests, with provider fetches completing in any order, each city's
\* history is chronological: timestamps never decrease from one entry to the
\* next.
C32_HistoryChronological ==
  \A c \in DOMAIN cities : \A i \in 1..Len(cities[c].history) - 1 :
    cities[c].history[i].timestamp <= cities[c].history[i + 1].timestamp

\* two /live requests for one city were in flight together; the fetch of the
\* later request completed first, a tick fired, then the fetch of the earlier
\* one completed: the history holds both snapshots in order of completion
C32_Witness ==
  /\ tomtomKey
  /\ ticks >= 1
  /\ live[1].pc = "done" /\ live[2].pc = "done"
  /\ live[1].city = live[2].city
  /\ live[1].resp.status = 200 /\ live[2].resp.status = 200
  /\ LET h == cities[live[1].city].history
     IN /\ Len(h) = 2
        /\ h[1] = live[2].resp.snapshot
        /\ h[2] = live[1].resp.snapshot
        /\ h[1].timestamp < h[2].timestamp

(***************************************************************************)
(* Persistence writes of the calls that append a snapshot                  *)
(***************************************************************************)
\* the snapshots a tick or /live call appended to the city's history
AppendedBy ==
  LET before == IF call.fn = "getLiveSnapshot" THEN Len(call.args.history) ELSE 0
  IN SubSeq(call.ret.history, before + 1, Len(call.ret.history))

\* C33: every snapshot appended to a city's history has exactly one
\* persistence write submitted for it, holding one record per feature of the
\* snapshot with the snapshot's city and timestamp; a call that appends
\* nothing submits nothing, and a failed write is not submitted again.
C33_OneWritePerSnapshot ==
  (call.fn \in {"tick", "getLiveSnapshot"} /\ call.done) =>
    /\ Len(call.ret.writes) = Len(AppendedBy)
    /\ \A k \in 1..Len(AppendedBy) :
         LET s == AppendedBy[k]
             docs == call.ret.writes[k].docs
         IN /\ Len(docs) = Len(s.features)
            /\ \A i \in 1..Len(docs) :
                 /\ docs[i].segmentId = s.features[i].id
                 /\ docs[i].city = s.city
                 /\ docs[i].timestamp = s.timestamp

\* a tick appended a snapshot of 120 features, its batch of 120 records was
\* rejected, and no other batch exists
C33_Witness ==
  /\ call.fn = "tick" /\ call.done
  /\ Len(AppendedBy) = 1
  /\ Len(call.ret.writes) = 1
  /\ call.ret.writes[1].state = "rejected"
  /\ Len(call.ret.writes[1].docs) = 120

(***************************************************************************)
(* /live in simulation mode                                                *)
(***************************************************************************)
\* C34: in simulation mode getLiveSnapshot builds and appends a snapshot only
\* when the city has no lastSnapshot; otherwise it returns the lastSnapshot
\* and leaves the city as it is, so a second request with no tick since the
\* first returns the snapshot the first returned.
C34_LiveReusesLastSnapshot ==
  [][\A r \in LiveSlots :
       (~tomtomKey /\ live[r].pc = "new" /\ live'[r].pc = "done"
          /\ live'[r].resp.status = 200) =>
         LET c == live'[r].city
             ret == live'[r].resp.snapshot
         IN /\ IF cities[c].lastSnapshot = NoSnapshot
               THEN /\ cities'[c].history = Append(cities[c].history, ret)
                    /\ cities'[c].lastSnapshot = ret
                    /\ ret.timestamp = now
               ELSE /\ cities'[c] = cities[c]
                    /\ ret = cities[c].lastSnapshot
            /\ \A q \in LiveSlots :
                 (q # r /\ live[q].pc = "done" /\ live[q].resp.status = 200
                    /\ live[q].city = c
                    /\ live[q].resp.snapshot = cities[c].lastSnapshot) =>
                   /\ ret = live[q].resp.snapshot
                   /\ cities'[c].history = cities[c].history]_vars

\* two /live requests for one city before any tick: both hold the snapshot
\* the first one built, and the history holds it once
C34_Witness ==
  /\ ~tomtomKey /\ ticks = 0
  /\ live[1].pc = "done" /\ live[2].pc = "done"
  /\ live[1].resp.status = 200 /\ live[2].resp.status = 200
  /\ live[1].city = live[2].city
  /\ live[1].resp.snapshot = live[2].resp.snapshot
  /\ cities[live[1].city].history = <<live[1].resp.snapshot>>

(***************************************************************************)
(* lastSnapshot and the history buffer                                     *)
(***************************************************************************)
\* C35: in every reachable state, for every city, lastSnapshot is null
\* exactly when the history is empty, otherwise it is the last entry of the
\* history; and no append is lost: below the cap the histories together hold
\* as many snapshots as were recorded (one insertMany call each).
C35_LastSnapshotIsNewest ==
  /\ \A c \in Cities :
       /\ (cities[c].lastSnapshot = NoSnapshot) <=> (cities[c].history = <<>>)
       /\ cities[c].history # <<>> => cities[c].lastSnapshot = Last(cities[c].history)
  /\ (\A c \in Cities : Len(cities[c].history) < HISTORY_CAP) =>
       SeqSum([i \in 1..Len(CityOrder) |-> Len(cities[CityOrder[i]].history)]) = nextWid

\* a /live request built the first snapshot of a city and a tick appended the
\* second one; the tick's snapshot is the lastSnapshot
C35_Witness ==
  \E c \in Cities :
    /\ ~tomtomKey /\ ticks = 1
    /\ Len(cities[c].history) = 2
    /\ cities[c].history[1].timestamp = StartMs
    /\ cities[c].history[2].timestamp = StartMs + TickIntervalMs
    /\ cities[c].lastSnapshot = cities[c].history[2]
    /\ \E r \in LiveSlots : live[r].pc = "done" /\ live[r].resp.snapshot = cities[c].history[1]

(***************************************************************************)
(* count on the two history paths                                          *)
(***************************************************************************)
\* the buffered snapshots of the queried city inside the queried range
QueriedBuffered ==
  historySamples(cities[hist.qcity].history, DateParse(hist.qfrom), DateParse(hist.qto))

\* the persisted batches of the queried city inside the queried range
QueriedPersisted == Matching(hist.qcity, DateParse(hist.qfrom), DateParse(hist.qto))

\* C36: count means the same on both paths: while a history query with a
\* range is being served and the snapshots of the city in that range are
\* both persisted and still buffered, getDbHistory and getHistory report the
\* same count, the number of those snapshots.
C36_CountSameOnBothPaths ==
  (/\ hist.pc = "awaitDb"
   /\ Truthy(hist.qfrom) /\ Truthy(hist.qto)
   /\ QueriedBuffered # <<>>
   /\ Cardinality(QueriedPersisted) = Len(QueriedBuffered)
   /\ \A i \in 1..Len(QueriedBuffered) :
        \E w \in QueriedPersisted :
          /\ w.timestamp = QueriedBuffered[i].timestamp
          /\ w.source = QueriedBuffered[i].source) =>
    LET data == getDbHistory(hist.qfrom, hist.qto, HISTORY_LIMIT, hist.qcity)
        mem == getHistory(hist.qfrom, hist.qto, hist.qcity)
    IN /\ data.count = mem.count
       /\ mem.count = Len(QueriedBuffered)

(***************************************************************************)
(* Operations on one city and the other cities                             *)
(***************************************************************************)
\* the cities whose context a step changes
ChangedCities == {c \in Cities : cities'[c] # cities[c]}

\* the cities of the /live requests that move in a step
LiveStepCities == {live'[r].city : r \in {q \in LiveSlots : live'[q] # live[q]}}

\* C37: an operation on one city leaves the segments, history and
\* lastSnapshot of the other cities unchanged: a /live step changes at most
\* the context of its own city, a /history or /predict step changes none,
\* and in a tick the new context of each city is its old context with a
\* snapshot of that city appended.
C37_OtherCitiesUntouched ==
  [][/\ DOMAIN cities' = DOMAIN cities
     /\ IF ticks' = ticks
        THEN ChangedCities \subseteq LiveStepCities /\ Cardinality(ChangedCities) <= 1
        ELSE \A c \in ChangedCities :
               /\ cities'[c].segments = cities[c].segments
               /\ cities'[c].lastSnapshot.city = c
               /\ cities'[c].history = pushCapped(cities[c].history, cities'[c].lastSnapshot)]_vars

\* a /live request recorded the first Delhi snapshot, then a /history request
\* for Bangalore was answered; Bangalore and Mumbai are as constructed
C37_Witness ==
  /\ ticks = 0
  /\ live[1].pc = "sent"
  /\ Len(cities["Delhi"].history) = 1 /\ cities["Delhi"].lastSnapshot.city = "Delhi"
  /\ hist.pc = "done" /\ hist.qcity = "Bangalore" /\ hist.resp.status = 200
  /\ \A c \in {"Bangalore", "Mumbai"} : cities[c] = constructed(StartMs)[c]

(***************************************************************************)
(* /history and /predict only read                                         *)
(***************************************************************************)
\* C38: getHistory, getDbHistory, predictTrendBased and predictShortTerm are
\* read-only: a step of a /history or /predict request leaves every city's
\* segments, history and lastSnapshot unchanged and submits no persistence
\* write.
C38_QueriesReadOnly ==
  [][(hist' # hist \/ pred' # pred) =>
       /\ cities' = cities
       /\ pending' = pending
       /\ nextWid' = nextWid
       /\ db' = db]_vars

\* a prediction was answered from the in-memory history of a city that holds
\* a snapshot, with nothing submitted beyond that snapshot's one write
C38_Witness ==
  /\ pred.pc = "done" /\ pred.resp.status = 200
  /\ Len(cities[pred.qcity].history) = 1
  /\ nextWid = 1

(***************************************************************************)
(* Age of the snapshot a /live request returns                             *)
(***************************************************************************)
\* the clock moves with the timer only, so once a tick has fired the last
\* tick fired at `now`
LastTickTime == now

\* C39: the snapshot returned by a /live request is never older than the most
\* recent tick, in simulation mode and in external mode when the provider
\* fetch fails: whenever such a request is answered after a tick has fired,
\* the timestamp of its snapshot is at or after the time of the last tick.
C39_LiveNotOlderThanTick ==
  [][\A r \in LiveSlots :
       (/\ ticks >= 1
        /\ live[r].pc # "done" /\ live'[r].pc = "done" /\ live'[r].resp.status = 200
        /\ \/ ~tomtomKey
           \/ live[r].pc = "awaitFetch" /\ log'["tomtomWarn"] = log["tomtomWarn"] + 1) =>
         live'[r].resp.snapshot.timestamp >= LastTickTime]_vars

(***************************************************************************)
(* MongoClient.connect (db/mongo.js), called concurrently.  The client and *)
(* its callers are held in `call`: args.mongoUri is config.mongoUri being  *)
(* set, ret holds _connected, _connecting, whether the connection events   *)
(* are listened to, and each caller's position in connect().               *)
(***************************************************************************)
MaxCallers == 3         \* concurrent callers of connect()
MaxConnectCalls == 4    \* connect() calls per run

Callers == 1..MaxCallers

\* constructor: _connected = false, _connecting = false
NewMongoClient ==
  [connected |-> FALSE, connecting |-> FALSE, listening |-> FALSE,
   callers |-> [k \in Callers |-> "idle"], calls |-> 0, attempts |-> 0, failures |-> 0]

\* if (this._connected || this._connecting) return;
guardConnectedOnly(client) == client.connected
alreadyConnectedOrConnecting(client) == client.connected \/ client.connecting

\* connect() up to its await: the guard, the URI check, _connecting = true and
\* the call of mongoose.connect
ConnectCalled(k) ==
  /\ call.fn = "connect"
  /\ call.ret.callers[k] = "idle"
  /\ call.ret.calls < MaxConnectCalls
  /\ LET client == call.ret
     IN IF alreadyConnectedOrConnecting(client) \/ ~call.args.mongoUri
        THEN call' = [call EXCEPT !.ret.callers[k] = "returned", !.ret.calls = @ + 1]
        ELSE call' = [call EXCEPT !.ret.connecting = TRUE,
                                  !.ret.callers[k] = "awaiting",
                                  !.ret.calls = @ + 1,
                                  !.ret.attempts = @ + 1]
  /\ UNCHANGED <<tomtomKey, now, ticks, schedulerOn, cities, pending, db, nextWid, log, live,
                 hist, pred>>

\* mongoose.connect resolves: _connected = true, the listeners are added, and
\* the finally clears _connecting
MongooseConnects(k) ==
  /\ call.fn = "connect"
  /\ call.ret.callers[k] = "awaiting"
  /\ call' = [call EXCEPT !.ret.connected = TRUE,
                          !.ret.listening = TRUE,
                          !.ret.connecting = FALSE,
                          !.ret.callers[k] = "returned"]
  /\ UNCHANGED <<tomtomKey, now, ticks, schedulerOn, cities, pending, db, nextWid, log, live,
                 hist, pred>>

\* catch (err) { logger.error(...); this._connecting = false } : nothing is
\* thrown on, the promise of connect() is fulfilled
connectRethrows(err) == "rejected"
connectSwallows(err) == "returned"

\* mongoose.connect rejects: the catch and the finally clear _connecting
MongooseFails(k) ==
  /\ call.fn = "connect"
  /\ call.ret.callers[k] = "awaiting"
  /\ call' = [call EXCEPT !.ret.connecting = FALSE,
                          !.ret.failures = @ + 1,
                          !.ret.callers[k] = connectSwallows("MongoServerSelectionError")]
  /\ UNCHANGED <<tomtomKey, now, ticks, schedulerOn, cities, pending, db, nextWid, log, live,
                 hist, pred>>

\* mongoose.connection emits 'disconnected': the listener clears _connected
ConnectionDisconnected ==
  /\ call.fn = "connect"
  /\ call.ret.listening /\ call.ret.connected
  /\ call' = [call EXCEPT !.ret.connected = FALSE]
  /\ UNCHANGED <<tomtomKey, now, ticks, schedulerOn, cities, pending, db, nextWid, log, live,
                 hist, pred>>

\* a caller whose connect() has returned may call again
CallerBack(k) ==
  /\ call.fn = "connect"
  /\ call.ret.callers[k] = "returned"
  /\ call.ret.calls < MaxConnectCalls
  /\ call' = [call EXCEPT !.ret.callers[k] = "idle"]
  /\ UNCHANGED <<tomtomKey, now, ticks, schedulerOn, cities, pending, db, nextWid, log, live,
                 hist, pred>>

InitMongoConnect ==
  /\ tomtomKey = FALSE
  /\ InitStore
  /\ call \in {[fn |-> "connect", args |-> [mongoUri |-> u], ret |-> NewMongoClient,
                done |-> FALSE] : u \in BOOLEAN}

NextMongoConnect ==
  \/ \E k \in Callers : ConnectCalled(k)
  \/ \E k \in Callers : MongooseConnects(k)
  \/ \E k \in Callers : MongooseFails(k)
  \/ ConnectionDisconnected
  \/ \E k \in Callers : CallerBack(k)

SpecMongoConnect == InitMongoConnect /\ [][NextMongoConnect]_vars

\* the callers whose mongoose.connect attempt is in flight
InFlight(client) == {k \in Callers : client.callers[k] = "awaiting"}

\* C40: under any interleaving of concurrent connect() calls at most one
\* mongoose.connect attempt is in flight, connect() never rejects, and once
\* an attempt has finished (connected, failed, or skipped for a missing URI)
\* _connecting is false, so that a later call after a failure starts a new
\* attempt.
C40_SingleConnectAttempt ==
  [][call.fn = "connect" =>
       /\ Cardinality(InFlight(call'.ret)) <= 1
       /\ \A k \in Callers : call'.ret.callers[k] # "rejected"
       /\ call'.ret.connecting <=> InFlight(call'.ret) # {}
       /\ \A k \in Callers :
            (/\ call.ret.callers[k] = "idle" /\ call'.ret.callers[k] # "idle"
             /\ call.args.mongoUri /\ ~call.ret.connected /\ InFlight(call.ret) = {}) =>
              /\ call'.ret.callers[k] = "awaiting"
              /\ call'.ret.attempts = call.ret.attempts + 1]_vars

\* an attempt failed, a later call started a second attempt while another
\* caller's call returned at once, and the second attempt is in flight
C40_Witness ==
  /\ call.fn = "connect" /\ call.args.mongoUri
  /\ call.ret.failures = 1 /\ call.ret.attempts = 2
  /\ call.ret.connecting /\ ~call.ret.connected
  /\ Cardinality(InFlight(call.ret)) = 1
  /\ \E k \in Callers : call.ret.callers[k] = "returned"
  /\ call.ret.calls >= 3

====
